---- MODULE Spec2Model ----
(***************************************************************************)
(* Model of the session memory of the math tutor, MathTutorMemory          *)
(* (src/src/agent/memory.py).  One action per public method; a call is one *)
(* atomic step (the session is single-threaded).  last_call, update_calls  *)
(* and calls are history variables: they record the calls made and are     *)
(* never read by the modelled code.  A session is explored up to MaxCalls  *)
(* calls; clear starts a new session.  set, which stores a value of its    *)
(* caller, is explored under SpecSet.                                      *)
(*                                                                         *)
(* The second part models the corpus store, MathProblemVectorStore         *)
(* (src/src/utils/vector_store.py), under its own specification SpecStore; *)
(* its import from and export to JSON files are explored under SpecFiles.  *)
(* The third part models the tutor logic, MathTutorLogic                   *)
(* (src/src/agent/logic.py): its classifier under SpecLogic, its methods   *)
(* that call the language model under SpecTutor.                           *)
(***************************************************************************)
EXTENDS Integers, Sequences, FiniteSets, TLC

\* ------------------------------------------------------------------------
\* Bounds of the model (not program constants)
\* ------------------------------------------------------------------------
MaxCalls == 4       \* calls made on the memory since it was last empty
MaxTime == 1        \* clock readings range over 0..MaxTime
MaxProblems == 2    \* nodes in the problems collection
MaxSolutions == 2   \* nodes in the solutions collection
MaxConcepts == 1    \* nodes in the concepts collection
MaxLoaded == 2      \* nodes a load from a file may leave in a collection
MaxKeywords == 2    \* keywords in a text without filler words

\* ------------------------------------------------------------------------
\* Argument domains
\* ------------------------------------------------------------------------
ProblemIds == {"p1", "p2"}
ProblemTexts == {"t1", "t2"}
ProblemTypes == {"algebra"}
Difficulties == {"basic"}
ProgressUpdates == {"u1"}
Correctness == {"True", "False", "None"}   \* is_correct: True, False, None
Hints == {"h1"}
Errors == {"e1"}
Concepts == {"c1", "c2"}
Messages == {"m1"}
Goals == {"g1"}

VARIABLES
    chat_memory,       \* self.chat_memory: the messages of the dialogue
    current_problems,  \* self.current_problems: dict problem_id -> state
    student_progress,  \* self.student_progress: the five ledgers
    session_info,      \* self.session_info
    now,               \* the last value datetime.now() returned
    raised,            \* exception the last call propagated, "none" if none
    result,            \* value the last call returned: <<>> is None
    last_call,         \* the last call made: <<method, arguments...>>
    update_calls,      \* per id, the update_problem_progress calls recorded
                       \* this session and since the id was last added
    calls,             \* calls made since construction or the last clear
    problems_collection,   \* the nodes of "math_problems", oldest first
    solutions_collection,  \* the nodes of "math_solutions"
    concepts_collection,   \* the nodes of "math_concepts"
    exported,          \* the last export_problems_to_json call: its target
                       \* and the collections it was made on; <<>> if none,
                       \* or once problems were loaded from another file
    classified         \* the first text classified and its classification

vars == <<chat_memory, current_problems, student_progress, session_info,
          now, raised, result, last_call, update_calls, calls,
          problems_collection, solutions_collection, concepts_collection,
          exported, classified>>

\* the state of the corpus store, which no method of the memory touches
collections ==
    <<problems_collection, solutions_collection, concepts_collection>>

\* history variables of the import and export of the store, and of the logic
others == <<exported, classified>>

\* ------------------------------------------------------------------------
\* Python list and dict helpers
\* ------------------------------------------------------------------------
\* x in list
In(x, list) == \E i \in 1..Len(list) : list[i] = x

\* index of the first occurrence of x in list (x is in list)
RECURSIVE IndexOf(_, _, _)
IndexOf(x, list, i) == IF list[i] = x THEN i ELSE IndexOf(x, list, i + 1)

\* list.remove(x): deletes the first occurrence of x
ListRemove(list, x) ==
    LET k == IndexOf(x, list, 1)
    IN  SubSeq(list, 1, k - 1) \o SubSeq(list, k + 1, Len(list))

\* d[k] = v
DictSet(d, k, v) ==
    [x \in (DOMAIN d) \cup {k} |-> IF x = k THEN v ELSE d[x]]

EmptyDict == [x \in {} |-> <<>>]

\* problem_id in self.current_problems
\* variant without the membership test: every id is taken as open
IsOpenAny(problem_id) == TRUE

IsOpen(problem_id) == problem_id \in DOMAIN current_problems

\* datetime.now(): a reading not before the previous one
Readings == now..MaxTime

\* ------------------------------------------------------------------------
\* __init__ and clear
\* ------------------------------------------------------------------------
EmptyProgress ==
    [solved_problems |-> <<>>, attempted_problems |-> <<>>,
     difficult_concepts |-> <<>>, mastered_concepts |-> <<>>,
     common_errors |-> <<>>]

NewSession(t0, t1) ==
    [start_time |-> t0, last_activity |-> t1, session_goals |-> <<>>]

NoUpdateCalls == [p \in ProblemIds |-> [session |-> 0, since_add |-> 0]]

Init ==
    /\ chat_memory = <<>>
    /\ current_problems = EmptyDict
    /\ student_progress = EmptyProgress
    /\ \E t0 \in 0..MaxTime : \E t1 \in t0..MaxTime :
          /\ session_info = NewSession(t0, t1)
          /\ now = t1
    /\ raised = "none"
    /\ result = <<>>
    /\ last_call = <<"__init__">>
    /\ update_calls = NoUpdateCalls
    /\ calls = 0
    /\ problems_collection = <<>>
    /\ solutions_collection = <<>>
    /\ concepts_collection = <<>>
    /\ exported = <<>>
    /\ classified = <<>>

\* variant of clear that does not reset student_progress
clearKeepsProgress ==
    /\ chat_memory' = <<>>
    /\ current_problems' = EmptyDict
    /\ student_progress' = student_progress
    /\ \E t0 \in Readings : \E t1 \in t0..MaxTime :
          /\ session_info' = NewSession(t0, t1)
          /\ now' = t1
    /\ raised' = "none"
    /\ result' = <<>>
    /\ last_call' = <<"clear">>
    /\ UNCHANGED <<collections, others>>
    /\ update_calls' = NoUpdateCalls
    /\ calls' = 0

\* variant of clear that does not reset current_problems
clearKeepsProblems ==
    /\ chat_memory' = <<>>
    /\ current_problems' = current_problems
    /\ student_progress' = EmptyProgress
    /\ \E t0 \in Readings : \E t1 \in t0..MaxTime :
          /\ session_info' = NewSession(t0, t1)
          /\ now' = t1
    /\ raised' = "none"
    /\ result' = <<>>
    /\ last_call' = <<"clear">>
    /\ UNCHANGED <<collections, others>>
    /\ update_calls' = NoUpdateCalls
    /\ calls' = 0

clear ==
    /\ chat_memory' = <<>>
    /\ current_problems' = EmptyDict
    /\ student_progress' = EmptyProgress
    /\ \E t0 \in Readings : \E t1 \in t0..MaxTime :
          /\ session_info' = NewSession(t0, t1)
          /\ now' = t1
    /\ raised' = "none"
    /\ result' = <<>>
    /\ last_call' = <<"clear">>
    /\ UNCHANGED <<collections, others>>
    /\ update_calls' = NoUpdateCalls
    /\ calls' = 0

\* ------------------------------------------------------------------------
\* get and put
\* ------------------------------------------------------------------------
get ==
    /\ \E t \in Readings :
          /\ session_info' = [session_info EXCEPT !.last_activity = t]
          /\ now' = t
    /\ result' = <<[chat_history |-> chat_memory,
                    current_problems |-> current_problems,
                    student_progress |-> student_progress,
                    session_info |-> session_info']>>
    /\ raised' = "none"
    /\ calls < MaxCalls /\ calls' = calls + 1
    /\ last_call' = <<"get">>
    /\ UNCHANGED <<collections, others>>
    /\ UNCHANGED <<chat_memory, current_problems, student_progress,
                   update_calls>>

put(message) ==
    /\ chat_memory' = Append(chat_memory, message)
    /\ \E t \in Readings :
          /\ session_info' = [session_info EXCEPT !.last_activity = t]
          /\ now' = t
    /\ raised' = "none"
    /\ result' = <<>>
    /\ calls < MaxCalls /\ calls' = calls + 1
    /\ last_call' = <<"put", message>>
    /\ UNCHANGED <<collections, others>>
    /\ UNCHANGED <<current_problems, student_progress, update_calls>>

\* ------------------------------------------------------------------------
\* add_problem
\* ------------------------------------------------------------------------
NewProblem(problem_text, problem_type, difficulty) ==
    [text |-> problem_text, type |-> problem_type,
     difficulty |-> difficulty, status |-> "started", attempts |-> 0,
     progress |-> <<>>, hints_given |-> <<>>, errors_made |-> <<>>]

add_problem(problem_id, problem_text, problem_type, difficulty) ==
    /\ current_problems' =
          DictSet(current_problems, problem_id,
                  NewProblem(problem_text, problem_type, difficulty))
    /\ student_progress' =
          [student_progress EXCEPT
              !.attempted_problems = Append(@, problem_id)]
    /\ raised' = "none"
    /\ result' = <<>>
    /\ calls < MaxCalls /\ calls' = calls + 1
    /\ last_call' = <<"add_problem", problem_id, problem_text,
                      problem_type, difficulty>>
    /\ UNCHANGED <<collections, others>>
    /\ update_calls' = [update_calls EXCEPT ![problem_id].since_add = 0]
    /\ UNCHANGED <<chat_memory, session_info, now>>

\* ------------------------------------------------------------------------
\* update_problem_progress
\* ------------------------------------------------------------------------
\* the status assignment of lines 130-135
\* variant: whatever is not True counts as False
NextStatusAttempted(status, is_correct) ==
    IF is_correct = "True" THEN "solved" ELSE "attempted"

NextStatus(status, is_correct) ==
    IF is_correct = "True" THEN "solved"
    ELSE IF is_correct = "False" THEN "attempted"
    ELSE status

\* line 127
\* variant: attempts = 1 in place of attempts += 1
NextAttemptsSet(attempts) == 1

\* variant: attempts is left as it is
NextAttemptsKept(attempts) == attempts

NextAttempts(attempts) == attempts + 1

\* lines 132-133
\* variant: the ledger of solved problems is left as it is
NextSolvedKept(solved, problem_id, is_correct) == solved

NextSolved(solved, problem_id, is_correct) ==
    IF is_correct = "True" /\ ~In(problem_id, solved)
    THEN Append(solved, problem_id)
    ELSE solved

update_problem_progress(problem_id, progress_update, is_correct) ==
    /\ calls < MaxCalls /\ calls' = calls + 1
    /\ last_call' = <<"update_problem_progress", problem_id,
                      progress_update, is_correct>>
    /\ UNCHANGED <<collections, others>>
    /\ raised' = "none"
    /\ result' = <<>>
    /\ IF ~IsOpen(problem_id)
       THEN UNCHANGED <<chat_memory, current_problems, student_progress,
                        session_info, now, update_calls>>
       ELSE /\ update_calls' = [update_calls EXCEPT
                                  ![problem_id].session = @ + 1,
                                  ![problem_id].since_add = @ + 1]
            /\ \E t \in Readings :
                 /\ now' = t
                 /\ current_problems' =
                       [current_problems EXCEPT
                          ![problem_id].progress =
                              Append(@, [timestamp |-> t,
                                         update |-> progress_update,
                                         is_correct |-> is_correct]),
                          ![problem_id].attempts = NextAttempts(@),
                          ![problem_id].status =
                              NextStatus(@, is_correct)]
            /\ student_progress' =
                  [student_progress EXCEPT
                     !.solved_problems =
                         NextSolved(@, problem_id, is_correct)]
            /\ UNCHANGED <<chat_memory, session_info>>

\* ------------------------------------------------------------------------
\* add_hint, add_error, add_mastered_concept, set_session_goal
\* ------------------------------------------------------------------------
add_hint(problem_id, hint) ==
    /\ calls < MaxCalls /\ calls' = calls + 1
    /\ last_call' = <<"add_hint", problem_id, hint>>
    /\ UNCHANGED <<collections, others>>
    /\ raised' = "none"
    /\ result' = <<>>
    /\ IF ~IsOpen(problem_id)
       THEN UNCHANGED <<chat_memory, current_problems, student_progress,
                        session_info, now, update_calls>>
       ELSE /\ \E t \in Readings :
                 /\ now' = t
                 /\ current_problems' =
                       [current_problems EXCEPT
                          ![problem_id].hints_given =
                              Append(@, [timestamp |-> t, hint |-> hint])]
            /\ UNCHANGED <<chat_memory, student_progress, session_info,
                           update_calls>>

\* lines 173-174
\* variant without the membership test
NextDifficultAlways(difficult, concept) == Append(difficult, concept)

NextDifficult(difficult, concept) ==
    IF ~In(concept, difficult) THEN Append(difficult, concept)
    ELSE difficult

add_error(problem_id, error, concept) ==
    /\ calls < MaxCalls /\ calls' = calls + 1
    /\ last_call' = <<"add_error", problem_id, error, concept>>
    /\ UNCHANGED <<collections, others>>
    /\ raised' = "none"
    /\ result' = <<>>
    /\ IF ~IsOpen(problem_id)
       THEN UNCHANGED <<chat_memory, current_problems, student_progress,
                        session_info, now, update_calls>>
       ELSE /\ \E t1 \in Readings : \E t2 \in t1..MaxTime :
                 /\ now' = t2
                 /\ current_problems' =
                       [current_problems EXCEPT
                          ![problem_id].errors_made =
                              Append(@, [timestamp |-> t1,
                                         error |-> error,
                                         concept |-> concept])]
                 /\ student_progress' =
                       [student_progress EXCEPT
                          !.difficult_concepts = NextDifficult(@, concept),
                          !.common_errors =
                              Append(@, [problem_id |-> problem_id,
                                         error |-> error,
                                         concept |-> concept,
                                         timestamp |-> t2])]
            /\ UNCHANGED <<chat_memory, session_info, update_calls>>

\* lines 192-193
NextMastered(mastered, concept) ==
    IF ~In(concept, mastered) THEN Append(mastered, concept)
    ELSE mastered

\* lines 196-197
\* variant without the removal from difficult_concepts
DropDifficultNever(difficult, concept) == difficult

DropDifficult(difficult, concept) ==
    IF In(concept, difficult) THEN ListRemove(difficult, concept)
    ELSE difficult

add_mastered_concept(concept) ==
    /\ student_progress' =
          [student_progress EXCEPT
             !.mastered_concepts = NextMastered(@, concept),
             !.difficult_concepts = DropDifficult(@, concept)]
    /\ calls < MaxCalls /\ calls' = calls + 1
    /\ last_call' = <<"add_mastered_concept", concept>>
    /\ UNCHANGED <<collections, others>>
    /\ raised' = "none"
    /\ result' = <<>>
    /\ UNCHANGED <<chat_memory, current_problems, session_info, now,
                   update_calls>>

set_session_goal(goal) ==
    /\ \E t \in Readings :
          /\ now' = t
          /\ session_info' =
                [session_info EXCEPT
                   !.session_goals =
                       Append(@, [timestamp |-> t, goal |-> goal])]
    /\ calls < MaxCalls /\ calls' = calls + 1
    /\ last_call' = <<"set_session_goal", goal>>
    /\ UNCHANGED <<collections, others>>
    /\ raised' = "none"
    /\ result' = <<>>
    /\ UNCHANGED <<chat_memory, current_problems, student_progress,
                   update_calls>>

\* ------------------------------------------------------------------------
\* get_context_for_problem
\* ------------------------------------------------------------------------
\* lines 228-231: the concepts of errors_made, each once, in first-seen order
RECURSIVE RelatedConcepts(_, _)
RelatedConcepts(errors_made, related) ==
    IF errors_made = <<>> THEN related
    ELSE RelatedConcepts(Tail(errors_made),
                         IF ~In(Head(errors_made).concept, related)
                         THEN Append(related, Head(errors_made).concept)
                         ELSE related)

\* lines 237-238: [c for c in concepts if c in related_concepts]
ConceptsIn(concepts, related_concepts) ==
    SelectSeq(concepts, LAMBDA c : In(c, related_concepts))

\* line 239
\* variant without the exclusion of problem_id
SimilarProblemsAll(solved, problem_id) == solved

SimilarProblems(solved, problem_id) ==
    SelectSeq(solved, LAMBDA p : p # problem_id)

Context(problem_id) ==
    LET problem_info == current_problems[problem_id]
        related_concepts == RelatedConcepts(problem_info.errors_made, <<>>)
    IN  [problem |-> problem_info,
         related_concepts |-> related_concepts,
         mastered_concepts |->
             ConceptsIn(student_progress.mastered_concepts,
                        related_concepts),
         difficult_concepts |->
             ConceptsIn(student_progress.difficult_concepts,
                        related_concepts),
         similar_problems |->
             SimilarProblems(student_progress.solved_problems, problem_id)]

get_context_for_problem(problem_id) ==
    /\ calls < MaxCalls /\ calls' = calls + 1
    /\ last_call' = <<"get_context_for_problem", problem_id>>
    /\ UNCHANGED <<collections, others>>
    /\ raised' = "none"
    /\ result' = IF ~IsOpen(problem_id) THEN <<EmptyDict>>
                 ELSE <<Context(problem_id)>>
    /\ UNCHANGED <<chat_memory, current_problems, student_progress,
                   session_info, now, update_calls>>

\* ------------------------------------------------------------------------
\* set
\* ------------------------------------------------------------------------
\* variant: the key under which get returns the dialogue is accepted too
KnownKeysAndHistory ==
    {"chat_memory", "current_problems", "student_progress", "session_info",
     "chat_history"}

\* line 274
KnownKeys ==
    {"chat_memory", "current_problems", "student_progress", "session_info"}

\* the keys given to set
SetKeys == KnownKeys \cup {"chat_history", "token_limit"}

\* the values given to set under a key
SetValues(key) ==
    CASE key \in {"chat_memory", "chat_history"} -> {<<>>, <<"m1">>}
      [] key = "current_problems" ->
            {EmptyDict,
             [p \in {"p2"} |->
                 [NewProblem("t1", "algebra", "basic") EXCEPT
                     !.status = "solved", !.attempts = 3]]}
      [] key = "student_progress" ->
            {EmptyProgress,
             [EmptyProgress EXCEPT !.solved_problems = <<"p1">>]}
      [] key = "session_info" ->
            {[NewSession(0, 0) EXCEPT !.session_goals = <<"g1">>]}
      [] OTHER -> {4096}

\* lines 273-277; setattr assigns the attribute of the object
set(key, value) ==
    /\ calls < MaxCalls /\ calls' = calls + 1
    /\ last_call' = <<"set", key, value>>
    /\ result' = <<>>
    /\ IF key \in KnownKeys
       THEN /\ raised' = "none"
            /\ chat_memory' =
                  IF key = "chat_memory" THEN value ELSE chat_memory
            /\ current_problems' =
                  IF key = "current_problems" THEN value
                  ELSE current_problems
            /\ student_progress' =
                  IF key = "student_progress" THEN value
                  ELSE student_progress
            /\ session_info' =
                  IF key = "session_info" THEN value ELSE session_info
       ELSE /\ raised' = "ValueError"
            /\ UNCHANGED <<chat_memory, current_problems, student_progress,
                           session_info>>
    /\ UNCHANGED <<now, update_calls, collections, others>>

\* ------------------------------------------------------------------------
\* Specification
\* ------------------------------------------------------------------------
Next ==
    \/ clear
    \/ get
    \/ \E m \in Messages : put(m)
    \/ \E p \in ProblemIds, t \in ProblemTexts, ty \in ProblemTypes,
          d \in Difficulties : add_problem(p, t, ty, d)
    \/ \E p \in ProblemIds, u \in ProgressUpdates, c \in Correctness :
          update_problem_progress(p, u, c)
    \/ \E p \in ProblemIds, h \in Hints : add_hint(p, h)
    \/ \E p \in ProblemIds, e \in Errors, c \in Concepts :
          add_error(p, e, c)
    \/ \E c \in Concepts : add_mastered_concept(c)
    \/ \E g \in Goals : set_session_goal(g)
    \/ \E p \in ProblemIds : get_context_for_problem(p)

Spec == Init /\ [][Next]_vars

\* set among some of the other methods: what set stores is a value of its
\* caller, which the invariants of the other methods need not hold for
NextSet ==
    \/ \E key \in SetKeys : \E value \in SetValues(key) : set(key, value)
    \/ \E m \in Messages : put(m)
    \/ \E p \in ProblemIds, t \in ProblemTexts, ty \in ProblemTypes,
          d \in Difficulties : add_problem(p, t, ty, d)
    \/ \E p \in ProblemIds, u \in ProgressUpdates, c \in Correctness :
          update_problem_progress(p, u, c)

SpecSet == Init /\ [][NextSet]_vars

\* ------------------------------------------------------------------------
\* Corpus store: argument domains
\* ------------------------------------------------------------------------
NoMetadata == [k \in {} |-> ""]
Algebra == [k \in {"type"} |-> "algebra"]
Geometry == [k \in {"type"} |-> "geometry"]

Metadatas == {NoMetadata, Algebra, Geometry}
CorpusProblemIds == {"p1"}     \* ids of the problems added to the store
SolutionTexts == {"s1"}
ConceptIds == {"k1"}
ConceptNames == {"n1"}
ConceptDescriptions == {"d1"}
Queries == {"q1"}
TopKs == {1, 2}
\* filters: <<>> is None, <<d>> is the dict d
FilterArgs == {<<>>, <<NoMetadata>>, <<Algebra>>}
\* problem_id of search_solutions: <<>> is None, <<s>> is the string s
ProblemIdArgs == {<<>>, <<"">>, <<"p1">>, <<"p2">>}

\* ------------------------------------------------------------------------
\* Corpus store: documents and the retriever
\* ------------------------------------------------------------------------
\* {**base, **extra}
DictMerge(base, extra) ==
    [k \in (DOMAIN base) \cup (DOMAIN extra) |->
        IF k \in DOMAIN extra THEN extra[k] ELSE base[k]]

\* d.get(k, default)
DictGet(d, k, default) == IF k \in DOMAIN d THEN d[k] ELSE default

\* Document(text=..., metadata=...): one node per document
Document(text, metadata) == [text |-> text, metadata |-> metadata]

\* the similarity of a text to a query, as the embedding gives it
Similarity(query, text) ==
    CASE text = "t1" -> 3
      [] text = "t2" -> 2
      [] text = "s1" -> 2
      [] OTHER -> 1

Min(a, b) == IF a < b THEN a ELSE b

\* index.as_retriever(similarity_top_k=top_k).retrieve(query): the top_k
\* nodes by similarity, best first, each with its score; nodes of equal
\* score come in any order, so this is the set of possible answers
Retrieve(collection, query, top_k) ==
    LET n == Len(collection)
        k == Min(top_k, n)
        score(i) == Similarity(query, collection[i].text)
        ranked(ix) ==
            /\ \A a, b \in 1..k : a # b => ix[a] # ix[b]
            /\ \A a, b \in 1..k : a < b => score(ix[a]) >= score(ix[b])
            /\ \A a \in 1..k : \A j \in 1..n :
                  (\A b \in 1..k : ix[b] # j) => score(ix[a]) >= score(j)
    IN  {[a \in 1..k |->
            [text |-> collection[ix[a]].text,
             metadata |-> collection[ix[a]].metadata,
             score |-> score(ix[a])]] :
         ix \in {f \in [1..k -> 1..n] : ranked(f)}}

\* ------------------------------------------------------------------------
\* add_problem, add_solution, add_concept of the store
\* ------------------------------------------------------------------------
StoreReturns(value) ==
    /\ raised' = "none"
    /\ result' = value
    /\ UNCHANGED <<chat_memory, current_problems, student_progress,
                   session_info, now, update_calls, calls, others>>

store_add_problem(problem_id, problem_text, metadata) ==
    /\ Len(problems_collection) < MaxProblems
    /\ problems_collection' =
          Append(problems_collection,
                 Document(problem_text,
                          DictMerge([k \in {"problem_id"} |-> problem_id],
                                    metadata)))
    /\ last_call' = <<"store.add_problem", problem_id, problem_text,
                      metadata>>
    /\ StoreReturns(<<>>)
    /\ UNCHANGED <<solutions_collection, concepts_collection>>

add_solution(problem_id, solution_text, metadata) ==
    /\ Len(solutions_collection) < MaxSolutions
    /\ solutions_collection' =
          Append(solutions_collection,
                 Document(solution_text,
                          DictMerge([k \in {"problem_id"} |-> problem_id],
                                    metadata)))
    /\ last_call' = <<"add_solution", problem_id, solution_text, metadata>>
    /\ StoreReturns(<<>>)
    /\ UNCHANGED <<problems_collection, concepts_collection>>

add_concept(concept_id, concept_name, concept_description, metadata) ==
    /\ Len(concepts_collection) < MaxConcepts
    /\ concepts_collection' =
          Append(concepts_collection,
                 Document(concept_name \o ": " \o concept_description,
                          DictMerge([k \in {"concept_id", "concept_name"} |->
                                        IF k = "concept_id" THEN concept_id
                                        ELSE concept_name],
                                    metadata)))
    /\ last_call' = <<"add_concept", concept_id, concept_name,
                      concept_description, metadata>>
    /\ StoreReturns(<<>>)
    /\ UNCHANGED <<problems_collection, solutions_collection>>

\* ------------------------------------------------------------------------
\* search_problems, search_solutions, search_concepts
\* ------------------------------------------------------------------------
\* lines 148-152
\* variant: a key the node lacks does not count against the node
MatchesIfPresent(metadata, filters) ==
    \A key \in DOMAIN filters :
        key \in DOMAIN metadata => metadata[key] = filters[key]

Matches(metadata, filters) ==
    \A key \in DOMAIN filters :
        ~(key \notin DOMAIN metadata \/ metadata[key] # filters[key])

\* lines 146-155
\* variant: the matching nodes are inserted at the front
FilterNodesReversed(nodes, filters) ==
    LET kept == SelectSeq(nodes, LAMBDA node : Matches(node.metadata, filters))
    IN  [i \in 1..Len(kept) |-> kept[Len(kept) + 1 - i]]

\* variant: with no matching node the nodes are left as they are
FilterNodesOrAll(nodes, filters) ==
    LET kept == SelectSeq(nodes, LAMBDA node : Matches(node.metadata, filters))
    IN  IF kept = <<>> THEN nodes ELSE kept

FilterNodes(nodes, filters) ==
    SelectSeq(nodes, LAMBDA node : Matches(node.metadata, filters))

\* lines 158-165
ProblemResults(nodes) ==
    [i \in 1..Len(nodes) |->
        [problem_id |-> DictGet(nodes[i].metadata, "problem_id", ""),
         text |-> nodes[i].text,
         metadata |-> nodes[i].metadata,
         score |-> nodes[i].score]]

\* the lists search_problems can return
\* variant: the filters select the nodes before they are ranked
SearchProblemsPrefiltered(collection, query, top_k, filters) ==
    IF filters # <<>> /\ DOMAIN filters[1] # {}
    THEN {ProblemResults(nodes) :
             nodes \in Retrieve(SelectSeq(collection,
                                   LAMBDA node :
                                       Matches(node.metadata, filters[1])),
                                query, top_k)}
    ELSE {ProblemResults(nodes) :
             nodes \in Retrieve(collection, query, top_k)}

SearchProblems(collection, query, top_k, filters) ==
    {ProblemResults(IF filters # <<>> /\ DOMAIN filters[1] # {}
                    THEN FilterNodes(nodes, filters[1])
                    ELSE nodes) :
        nodes \in Retrieve(collection, query, top_k)}

search_problems(query, top_k, filters) ==
    /\ \E results \in SearchProblems(problems_collection, query, top_k,
                                     filters) :
          StoreReturns(<<results>>)
    /\ last_call' = <<"search_problems", query, top_k, filters>>
    /\ UNCHANGED <<collections, others>>

\* lines 188-189
\* variant: no filter at all
SolutionNodesAll(nodes, problem_id) == nodes

SolutionNodes(nodes, problem_id) ==
    IF problem_id # <<>> /\ problem_id[1] # ""
    THEN SelectSeq(nodes,
                   LAMBDA node : "problem_id" \in DOMAIN node.metadata
                                 /\ node.metadata["problem_id"] = problem_id[1])
    ELSE nodes

search_solutions(query, top_k, problem_id) ==
    /\ \E nodes \in Retrieve(solutions_collection, query, top_k) :
          StoreReturns(<<ProblemResults(SolutionNodes(nodes, problem_id))>>)
    /\ last_call' = <<"search_solutions", query, top_k, problem_id>>
    /\ UNCHANGED <<collections, others>>

\* lines 221-229
ConceptResults(nodes) ==
    [i \in 1..Len(nodes) |->
        [concept_id |-> DictGet(nodes[i].metadata, "concept_id", ""),
         concept_name |-> DictGet(nodes[i].metadata, "concept_name", ""),
         text |-> nodes[i].text,
         metadata |-> nodes[i].metadata,
         score |-> nodes[i].score]]

search_concepts(query, top_k) ==
    /\ \E nodes \in Retrieve(concepts_collection, query, top_k) :
          StoreReturns(<<ConceptResults(nodes)>>)
    /\ last_call' = <<"search_concepts", query, top_k>>
    /\ UNCHANGED <<collections, others>>

\* ------------------------------------------------------------------------
\* Specification of the corpus store
\* ------------------------------------------------------------------------
NextStore ==
    \/ \E p \in CorpusProblemIds, t \in ProblemTexts, m \in Metadatas :
          store_add_problem(p, t, m)
    \/ \E p \in ProblemIds, t \in SolutionTexts : add_solution(p, t, NoMetadata)
    \/ \E c \in ConceptIds, n \in ConceptNames, d \in ConceptDescriptions :
          add_concept(c, n, d, NoMetadata)
    \/ \E q \in Queries, k \in TopKs, f \in FilterArgs :
          search_problems(q, k, f)
    \/ \E q \in Queries, k \in TopKs, p \in ProblemIdArgs :
          search_solutions(q, k, p)
    \/ \E q \in Queries, k \in TopKs : search_concepts(q, k)

\* a new store next to a memory constructed at time 0
InitStore == Init /\ now = 0

SpecStore == InitStore /\ [][NextStore]_vars

\* ------------------------------------------------------------------------
\* JSON files of problems and concepts
\* ------------------------------------------------------------------------
\* a record of a problems file with every key
FullProblem ==
    [k \in {"problem_id", "text", "metadata", "solutions"} |->
        CASE k = "problem_id" -> "p1"
          [] k = "text" -> "t1"
          [] k = "metadata" -> Algebra
          [] k = "solutions" -> <<[k2 \in {"text"} |-> "s1"]>>]
\* a record with the text only
BareProblem == [k \in {"text"} |-> "t2"]
\* a record without text
NoTextProblem == [k \in {"problem_id"} |-> "p2"]
\* a record without problem_id, with two solutions
TwoSolutionsProblem ==
    [k \in {"text", "solutions"} |->
        IF k = "text" THEN "t1"
        ELSE <<[k2 \in {"text"} |-> "s1"], [k2 \in {"text"} |-> "s2"]>>]

\* a concept record without concept_id
BareConcept == [k \in {"name", "description"} |->
                   IF k = "name" THEN "n1" ELSE "d1"]
\* concept records without name, without description
NoNameConcept == [k \in {"concept_id", "description"} |->
                     IF k = "concept_id" THEN "k1" ELSE "d1"]
NoDescriptionConcept == [k \in {"concept_id", "name"} |->
                            IF k = "concept_id" THEN "k2" ELSE "n1"]

\* the JSON arrays the files hold
ProblemFiles ==
    {<<>>, <<FullProblem>>, <<BareProblem>>, <<NoTextProblem>>,
     <<FullProblem, BareProblem>>, <<BareProblem, BareProblem>>,
     <<NoTextProblem, BareProblem>>, <<FullProblem, FullProblem>>,
     <<FullProblem, BareProblem, BareProblem>>,
     <<BareProblem, TwoSolutionsProblem>>}
ConceptFiles ==
    {<<>>, <<BareConcept>>, <<NoNameConcept>>, <<NoDescriptionConcept>>,
     <<NoNameConcept, BareConcept>>, <<BareConcept, BareConcept>>}

\* the paths given to the loads and to the export; no file is at
\* "missing.json", and the target of the export is a path that holds no
\* file before the export
ProblemPaths == {"problems.json", "missing.json", "export.json"}
ConceptPaths == {"concepts.json", "missing.json"}

\* what is at json_file when a load opens it: <<>> if os.path.exists is
\* false, <<array>> otherwise.  export_problems_to_json never reaches its
\* write (see below), so nothing is ever at "export.json"
OnDisk(json_file) ==
    CASE json_file = "problems.json" ->
            {<<array>> : array \in ProblemFiles}
      [] json_file = "concepts.json" ->
            {<<array>> : array \in ConceptFiles}
      [] OTHER -> {<<>>}

\* ------------------------------------------------------------------------
\* load_problems_from_json, load_concepts_from_json
\* ------------------------------------------------------------------------
Digits == <<"0", "1", "2", "3", "4", "5", "6", "7", "8", "9">>

\* str(n) of a natural number
RECURSIVE str(_)
str(n) ==
    IF n < 10 THEN Digits[n + 1]
    ELSE str(n \div 10) \o Digits[(n % 10) + 1]

\* variant: the default id counts from one
DefaultIdFromOne(count) == str(count + 1)

\* the default of problem.get("problem_id", str(count))
DefaultId(count) == str(count)

\* the document add_problem and add_solution insert
KeyedDocument(problem_id, text, metadata) ==
    Document(text, DictMerge([k \in {"problem_id"} |-> problem_id], metadata))

\* the document add_concept inserts
ConceptDocument(concept_id, concept_name, concept_description, metadata) ==
    Document(concept_name \o ": " \o concept_description,
             DictMerge([k \in {"concept_id", "concept_name"} |->
                           IF k = "concept_id" THEN concept_id
                           ELSE concept_name],
                       metadata))

\* the documents add_solution inserts for the solutions of one record
SolutionDocuments(problem_id, solutions) ==
    [j \in 1..Len(solutions) |->
        KeyedDocument(problem_id,
                      DictGet(solutions[j], "text", ""),
                      DictGet(solutions[j], "metadata", NoMetadata))]

\* variant: the solutions of a record are added before its problem
InsertionsSolutionsFirst(problem_id, solutions) ==
    [j \in 1..Len(solutions) |-> <<"add_solution", problem_id>>]
       \o <<<<"add_problem", problem_id>>>>

\* the calls of add_problem and add_solution made for one record, in order
Insertions(problem_id, solutions) ==
    <<<<"add_problem", problem_id>>>>
       \o [j \in 1..Len(solutions) |-> <<"add_solution", problem_id>>]

\* the loop of load_problems_from_json from record i on: the collections it
\* leaves, the count it returns and the calls of add_problem and
\* add_solution it made
RECURSIVE LoadProblems(_, _, _, _, _, _)
LoadProblems(problems, i, count, pc, sc, added) ==
    IF i > Len(problems)
    THEN [problems_collection |-> pc, solutions_collection |-> sc,
          count |-> count, added |-> added]
    ELSE LET problem == problems[i]
             problem_id == DictGet(problem, "problem_id", DefaultId(count))
             problem_text == DictGet(problem, "text", "")
             metadata == DictGet(problem, "metadata", NoMetadata)
             solutions == DictGet(problem, "solutions", <<>>)
         IN  LoadProblems(problems, i + 1, count + 1,
                          Append(pc, KeyedDocument(problem_id, problem_text,
                                                   metadata)),
                          sc \o SolutionDocuments(problem_id, solutions),
                          added \o Insertions(problem_id, solutions))

\* the loop of load_concepts_from_json
RECURSIVE LoadConcepts(_, _, _, _)
LoadConcepts(concepts, i, count, cc) ==
    IF i > Len(concepts)
    THEN [concepts_collection |-> cc, count |-> count]
    ELSE LET concept == concepts[i]
             concept_id == DictGet(concept, "concept_id", DefaultId(count))
             concept_name == DictGet(concept, "name", "")
             concept_description == DictGet(concept, "description", "")
             metadata == DictGet(concept, "metadata", NoMetadata)
         IN  LoadConcepts(concepts, i + 1, count + 1,
                          Append(cc, ConceptDocument(concept_id, concept_name,
                                                     concept_description,
                                                     metadata)))

\* what a method of the store leaves alone besides the collections
FileReturns(exception, value) ==
    /\ raised' = exception
    /\ result' = value
    /\ UNCHANGED <<chat_memory, current_problems, student_progress,
                   session_info, now, update_calls, calls, classified>>

load_problems_from_json(json_file, on_disk) ==
    /\ IF on_disk = <<>>
       THEN /\ UNCHANGED collections
            /\ FileReturns("none", <<0>>)
            /\ last_call' = <<"load_problems_from_json", json_file, on_disk,
                              <<>>>>
       ELSE LET loaded == LoadProblems(on_disk[1], 1, 0, problems_collection,
                                       solutions_collection, <<>>)
            IN  /\ Len(loaded.problems_collection) <= MaxLoaded
                /\ Len(loaded.solutions_collection) <= MaxLoaded
                /\ problems_collection' = loaded.problems_collection
                /\ solutions_collection' = loaded.solutions_collection
                /\ UNCHANGED concepts_collection
                /\ FileReturns("none", <<loaded.count>>)
                /\ last_call' = <<"load_problems_from_json", json_file,
                                  on_disk, loaded.added>>
    /\ exported' = IF json_file = "problems.json" THEN <<>> ELSE exported

load_concepts_from_json(json_file, on_disk) ==
    /\ IF on_disk = <<>>
       THEN /\ UNCHANGED collections
            /\ FileReturns("none", <<0>>)
       ELSE LET loaded == LoadConcepts(on_disk[1], 1, 0, concepts_collection)
            IN  /\ Len(loaded.concepts_collection) <= MaxLoaded
                /\ concepts_collection' = loaded.concepts_collection
                /\ UNCHANGED <<problems_collection, solutions_collection>>
                /\ FileReturns("none", <<loaded.count>>)
    /\ last_call' = <<"load_concepts_from_json", json_file, on_disk>>
    /\ UNCHANGED exported

\* ------------------------------------------------------------------------
\* export_problems_to_json
\* ------------------------------------------------------------------------
\* the id the index gives the i-th node it stores; no problem_id
NodeId(i) == "node-" \o str(i)

\* collection.get(): the ids, texts and metadata of all nodes; each of the
\* metadatas is a mapping
CollectionGet(collection) ==
    [ids |-> [i \in 1..Len(collection) |-> NodeId(i)],
     documents |-> [i \in 1..Len(collection) |-> collection[i].text],
     metadatas |-> [i \in 1..Len(collection) |-> collection[i].metadata]]

\* Without a node the export returns 0 at line 373 and writes no file.
\* With nodes, the first turn of the loop gives json.loads a mapping, and
\* json.loads raises TypeError for what is no str, bytes or bytearray: the
\* export ends there, before the file is opened.
export_problems_to_json(json_file) ==
    /\ LET nodes == CollectionGet(problems_collection)
       IN  IF nodes.ids = <<>>
           THEN FileReturns("none", <<0>>)
           ELSE FileReturns("TypeError", <<>>)
    /\ exported' = <<[json_file |-> json_file,
                      problems_collection |-> problems_collection,
                      solutions_collection |-> solutions_collection]>>
    /\ last_call' = <<"export_problems_to_json", json_file>>
    /\ UNCHANGED collections

\* MathProblemVectorStore(persist_dir) on a directory that holds no store
new_store ==
    /\ problems_collection' = <<>>
    /\ solutions_collection' = <<>>
    /\ concepts_collection' = <<>>
    /\ last_call' = <<"MathProblemVectorStore">>
    /\ FileReturns("none", <<>>)
    /\ UNCHANGED exported

\* ------------------------------------------------------------------------
\* Specification of the import and export
\* ------------------------------------------------------------------------
NextFiles ==
    \/ \E json_file \in ProblemPaths : \E on_disk \in OnDisk(json_file) :
          load_problems_from_json(json_file, on_disk)
    \/ \E json_file \in ConceptPaths : \E on_disk \in OnDisk(json_file) :
          load_concepts_from_json(json_file, on_disk)
    \/ export_problems_to_json("export.json")
    \/ new_store

SpecFiles == InitStore /\ [][NextFiles]_vars

\* ------------------------------------------------------------------------
\* Tutor logic: texts
\* ------------------------------------------------------------------------
\* A text is the sequence of its characters.  The Cyrillic letters of the
\* source are written in Latin transliteration, one string per letter
\* ("zh", "soft" for the soft sign, ...), a capital letter in capitals;
\* the strings of the source are transliterated likewise
\* ("geometriya", "Trebuetsya analiz" for the text "requires analysis").
LowerLetters ==
    <<"a", "b", "v", "g", "d", "e", "yo", "zh", "z", "i", "j", "k", "l", "m",
      "n", "o", "p", "r", "s", "t", "u", "f", "h", "c", "ch", "sh", "sch",
      "hard", "y", "soft", "eh", "yu", "ya">>
UpperLetters ==
    <<"A", "B", "V", "G", "D", "E", "YO", "ZH", "Z", "I", "J", "K", "L", "M",
      "N", "O", "P", "R", "S", "T", "U", "F", "H", "C", "CH", "SH", "SCH",
      "HARD", "Y", "SOFT", "EH", "YU", "YA">>

\* c.lower() of one character
Lower(c) ==
    IF \E i \in 1..Len(UpperLetters) : UpperLetters[i] = c
    THEN LowerLetters[CHOOSE i \in 1..Len(UpperLetters) : UpperLetters[i] = c]
    ELSE c

Whitespace == {" ", "\n", "\t"}

\* text.split(): the maximal runs of characters that are no whitespace,
\* from left to right
split(text) ==
    LET first == {i \in 1..Len(text) :
                    /\ text[i] \notin Whitespace
                    /\ i = 1 \/ text[i - 1] \in Whitespace}
        last(i) == CHOOSE j \in i..Len(text) :
                      /\ \A k \in i..j : text[k] \notin Whitespace
                      /\ j = Len(text) \/ text[j + 1] \in Whitespace
        nth(n) == CHOOSE i \in first :
                     Cardinality({j \in first : j < i}) = n - 1
    IN  [n \in 1..Cardinality(first) |-> SubSeq(text, nth(n), last(nth(n)))]

\* a pattern of task_patterns, a literal followed by an optional class of
\* characters, as the sequence of the sets of characters it accepts
Re(literal, class) ==
    [i \in 1..Len(literal) |-> {literal[i]}]
       \o (IF class = {} THEN <<>> ELSE <<class>>)

\* variant: the search compares the characters as they are
re_search_exact(pattern, string) ==
    \E p \in 1..(Len(string) - Len(pattern) + 1) :
        \A k \in 1..Len(pattern) : string[p + k - 1] \in pattern[k]

\* re.search(pattern, string, re.IGNORECASE) finds a match: the pattern
\* matches at some position, letters compared without their case (the
\* patterns are in lower case)
re_search(pattern, string) ==
    LET folded == [i \in 1..Len(string) |-> Lower(string[i])]
    IN  \E p \in 1..(Len(string) - Len(pattern) + 1) :
            \A k \in 1..Len(pattern) : folded[p + k - 1] \in pattern[k]

\* self.task_patterns, in the order of the dict
TaskPatterns ==
    <<[task_type |-> "algebra",
      patterns |-> <<
         Re(<<"u", "r", "a", "v", "n", "e", "n", "i">>, {"e", "ya", "j"}),
         Re(<<"n", "e", "r", "a", "v", "e", "n", "s", "t", "v">>, {"o", "a"}),
         Re(<<"f", "u", "n", "k", "c", "i">>, {"ya", "i", "j"}),
         Re(<<"g", "r", "a", "f", "i", "k">>, {}),
         Re(<<"p", "r", "o", "i", "z", "v", "o", "d", "n">>,
            {"a", "ya", "o", "j"}),
         Re(<<"i", "n", "t", "e", "g", "r", "a", "l">>, {}),
         Re(<<"l", "o", "g", "a", "r", "i", "f", "m">>, {}),
         Re(<<"s", "t", "e", "p", "e", "n">>, {"soft", "i"})>>],
     [task_type |-> "geometriya",
      patterns |-> <<
         Re(<<"t", "r", "e", "u", "g", "o", "l", "soft", "n", "i",
               "k">>, {}),
         Re(<<"ch", "e", "t", "y", "r", "e", "h", "u", "g", "o",
               "l", "soft", "n", "i", "k">>, {}),
         Re(<<"o", "k", "r", "u", "zh", "n", "o", "s", "t",
               "soft">>, {}),
         Re(<<"m", "n", "o", "g", "o", "u", "g", "o", "l", "soft",
               "n", "i", "k">>, {}),
         Re(<<"p", "r", "i", "z", "m">>, {"a", "y"}),
         Re(<<"p", "i", "r", "a", "m", "i", "d">>, {"a", "y"}),
         Re(<<"k", "o", "n", "u", "s">>, {}),
         Re(<<"c", "i", "l", "i", "n", "d", "r">>, {}),
         Re(<<"sh", "a", "r">>, {}),
         Re(<<"o", "b", "hard", "e", "m">>, {}),
         Re(<<"p", "l", "o", "sch", "a", "d", "soft">>, {}),
         Re(<<"u", "g", "o", "l">>, {})>>],
     [task_type |-> "veroyatnost",
      patterns |-> <<
         Re(<<"v", "e", "r", "o", "ya", "t", "n", "o", "s", "t">>,
            {"soft", "i"}),
         Re(<<"k", "o", "m", "b", "i", "n", "a", "t", "o", "r",
               "i", "k">>, {"a", "i"}),
         Re(<<"s", "o", "ch", "e", "t", "a", "n", "i">>, {"ya", "e", "j"}),
         Re(<<"r", "a", "z", "m", "e", "sch", "e", "n", "i">>,
            {"ya", "e", "j"}),
         Re(<<"p", "e", "r", "e", "s", "t", "a", "n", "o", "v",
               "k">>, {"a", "i"}),
         Re(<<"s", "o", "b", "y", "t", "i">>, {"ya", "e", "j"}),
         Re(<<"n", "e", "z", "a", "v", "i", "s", "i", "m">>,
            {"y", "o", "e", "a", "ya"})>>],
     [task_type |-> "tekstovaya_zadacha",
      patterns |-> <<
         Re(<<"p", "r", "o", "c", "e", "n", "t">>, {}),
         Re(<<"k", "r", "e", "d", "i", "t">>, {}),
         Re(<<"v", "k", "l", "a", "d">>, {}),
         Re(<<"s", "k", "o", "r", "o", "s", "t">>, {"soft", "i"}),
         Re(<<"d", "v", "i", "zh", "e", "n", "i">>, {"e", "ya", "j"}),
         Re(<<"r", "a", "b", "o", "t">>, {"a", "y"}),
         Re(<<"p", "r", "o", "i", "z", "v", "o", "d", "i", "t",
               "e", "l", "soft", "n", "o", "s", "t">>,
            {"soft", "i"})>>]>>

\* ------------------------------------------------------------------------
\* The texts classified
\* ------------------------------------------------------------------------
Word_okruzhnost ==
    <<"o", "k", "r", "u", "zh", "n", "o", "s", "t", "soft">>
Word_URAVNENIE ==
    <<"U", "R", "A", "V", "N", "E", "N", "I", "E">>
Word_Veroyatnost ==
    <<"V", "e", "r", "o", "ya", "t", "n", "o", "s", "t", "soft">>
Word_skorosti ==
    <<"s", "k", "o", "r", "o", "s", "t", "i">>
Word_najdite ==
    <<"n", "a", "j", "d", "i", "t", "e">>
Word_x == <<"x">>

\* the words the texts are made of, each with the task type one of whose
\* keywords it contains ("none": it contains no keyword)
Vocabulary ==
    {[word |-> Word_okruzhnost, keyword_of |-> "geometriya"],
     [word |-> Word_URAVNENIE, keyword_of |-> "algebra"],
     [word |-> Word_Veroyatnost, keyword_of |-> "veroyatnost"],
     [word |-> Word_skorosti, keyword_of |-> "tekstovaya_zadacha"],
     [word |-> Word_najdite, keyword_of |-> "none"],
     [word |-> Word_x, keyword_of |-> "none"]}


\* the words of a list joined by a separator
RECURSIVE Join(_, _)
Join(words, sep) ==
    IF words = <<>> THEN <<>>
    ELSE IF Len(words) = 1 THEN words[1]
         ELSE words[1] \o sep \o Join(Tail(words), sep)

\* the words that contain a keyword
Keywords == {v.word : v \in {w \in Vocabulary : w.keyword_of # "none"}}
Filler(n) == [i \in 1..n |-> Word_x]
\* n filler words separated by a space
FillerText(n) == [i \in 1..(2 * n - 1) |-> IF i % 2 = 1 THEN "x" ELSE " "]
\* the two thresholds of _determine_difficulty, in words
Thresholds == {30, 60}

\* up to MaxKeywords different keywords in any order, or one word without
\* keyword
WordLists ==
    UNION {{list \in [1..m -> Keywords] :
              \A i, j \in 1..m : list[i] = list[j] => i = j} :
           m \in 0..MaxKeywords}
       \cup {<<Word_najdite>>}

\* the texts, each with the words it was made of: the words of a list
\* separated by a space, those of some lists of two words also by a newline
\* and a tab; filler words, one fewer than a threshold or as many; a keyword
\* and filler words, ten words or as many as a threshold together
Composition ==
    {[text |-> Join(list, <<" ">>), words |-> list] : list \in WordLists}
       \cup {[text |-> Join(list, <<"\n", "\t">>), words |-> list] :
                list \in [1..2 -> {Word_okruzhnost, Word_najdite}]}
       \cup {[text |-> FillerText(n), words |-> Filler(n)] :
                n \in Thresholds \cup {n - 1 : n \in Thresholds}}
       \cup {[text |-> Word_okruzhnost \o <<" ">> \o FillerText(n - 1),
              words |-> <<Word_okruzhnost>> \o Filler(n - 1)] :
                n \in Thresholds \cup {10}}

Texts == {c.text : c \in Composition}

\* ------------------------------------------------------------------------
\* The classifier: _determine_task_type, _determine_difficulty,
\* _determine_key_concepts
\* ------------------------------------------------------------------------
\* the loop of _determine_task_type from the i-th task type on
RECURSIVE FirstMatching(_, _)
FirstMatching(problem_text, i) ==
    IF i > Len(TaskPatterns)
    THEN "Trebuetsya analiz"
    ELSE IF \E j \in 1..Len(TaskPatterns[i].patterns) :
               re_search(TaskPatterns[i].patterns[j], problem_text)
         THEN TaskPatterns[i].task_type
         ELSE FirstMatching(problem_text, i + 1)

_determine_task_type(problem_text) == FirstMatching(problem_text, 1)

\* variant: a text of exactly 30 (60) words is still of the lower level
_determine_difficulty_inclusive(problem_text, task_type) ==
    LET word_count == Len(split(problem_text))
    IN  IF word_count <= 30 THEN "Bazovyj uroven"
        ELSE IF word_count <= 60 THEN "Srednij uroven"
             ELSE "Povyshennyj uroven"

_determine_difficulty(problem_text, task_type) ==
    LET word_count == Len(split(problem_text))
    IN  IF word_count < 30 THEN "Bazovyj uroven"
        ELSE IF word_count < 60 THEN "Srednij uroven"
             ELSE "Povyshennyj uroven"

_determine_key_concepts(problem_text, task_type) == <<"Trebuetsya analiz">>

\* lines 115-122 of analyze_problem: the preliminary analysis of a text
Preliminary(problem_text) ==
    LET task_type == _determine_task_type(problem_text)
        difficulty == _determine_difficulty(problem_text, task_type)
        key_concepts == _determine_key_concepts(problem_text, task_type)
    IN  [type |-> task_type, difficulty |-> difficulty,
         key_concepts |-> key_concepts]

\* the preliminary analysis of every text, computed once
Preliminaries == [problem_text \in Texts |-> Preliminary(problem_text)]

\* variant: the key concepts of the first text classified are kept and
\* added to those of the texts classified later
ClassifyRemembering(problem_text) ==
    IF classified = <<>> THEN Preliminaries[problem_text]
    ELSE [Preliminaries[problem_text] EXCEPT
             !.key_concepts = classified[1].result.key_concepts \o @]

\* classify(text): the three _determine_ methods, which read the text and
\* self.task_patterns only
Classify(problem_text) == Preliminaries[problem_text]

\* what a method of the logic leaves alone
LogicReturns(exception, value) ==
    /\ raised' = exception
    /\ result' = value
    /\ UNCHANGED <<chat_memory, current_problems, student_progress,
                   session_info, now, update_calls, calls, collections,
                   exported>>

\* the first classification made is kept, with the methods of the logic
\* called after it
Interleave(method) ==
    IF classified = <<>> THEN <<>>
    ELSE <<[classified[1] EXCEPT !.interleaved = @ \cup {method}]>>

Remember(problem_text, classification) ==
    classified' =
       IF classified = <<>>
       THEN <<[text |-> problem_text, result |-> classification,
               interleaved |-> {}]>>
       ELSE IF classified[1].text = problem_text THEN classified
            ELSE Interleave("classify")

OtherCall(method) == classified' = Interleave(method)

classify(problem_text) ==
    /\ LogicReturns("none", <<Classify(problem_text)>>)
    /\ Remember(problem_text, Classify(problem_text))
    /\ last_call' = <<"classify", problem_text>>

\* ------------------------------------------------------------------------
\* Tutor logic: the answers of the language model and json.loads
\* ------------------------------------------------------------------------
\* An answer read by json.loads is the sequence of its JSON tokens; a token
\* is [t |-> kind, s |-> characters], the kinds being the six punctuation
\* marks, "str", "num", "null" and "word" (a word of prose, no JSON token).
Tok(t) == [t |-> t, s |-> ""]
StrTok(s) == [t |-> "str", s |-> s]

\* Python values read from JSON, tagged with their type.  s holds the
\* characters of a str or of a number; items holds the values of a dict
\* under their keys, and the elements of a list under "0", "1", ...
JObject(d) == [tag |-> "dict", s |-> "", items |-> d]
JList(l) ==
    [tag |-> "list", s |-> "",
     items |-> [k \in {str(i - 1) : i \in 1..Len(l)} |->
                  l[CHOOSE i \in 1..Len(l) : str(i - 1) = k]]]
JStr(s) == [tag |-> "str", s |-> s, items |-> EmptyDict]
JNum(s) == [tag |-> "num", s |-> s, items |-> EmptyDict]
JNone == [tag |-> "None", s |-> "", items |-> EmptyDict]

\* the elements of a list, in order
Elements(list) ==
    [i \in 1..Cardinality(DOMAIN list.items) |-> list.items[str(i - 1)]]

NoValue == [ok |-> FALSE, value |-> JNone, next |-> 0]
Value(value, next) == [ok |-> TRUE, value |-> value, next |-> next]

\* the JSON value that starts at token i, and the token after it
RECURSIVE ParseValue(_, _)
RECURSIVE ParseElements(_, _, _)
RECURSIVE ParseMembers(_, _, _)
ParseValue(tokens, i) ==
    IF i > Len(tokens) THEN NoValue
    ELSE CASE tokens[i].t = "str" -> Value(JStr(tokens[i].s), i + 1)
           [] tokens[i].t = "num" -> Value(JNum(tokens[i].s), i + 1)
           [] tokens[i].t = "null" -> Value(JNone, i + 1)
           [] tokens[i].t = "[" ->
                 IF i < Len(tokens) /\ tokens[i + 1].t = "]"
                 THEN Value(JList(<<>>), i + 2)
                 ELSE ParseElements(tokens, i + 1, <<>>)
           [] tokens[i].t = "{" ->
                 IF i < Len(tokens) /\ tokens[i + 1].t = "}"
                 THEN Value(JObject(EmptyDict), i + 2)
                 ELSE ParseMembers(tokens, i + 1, EmptyDict)
           [] OTHER -> NoValue

\* the rest of an array whose next element starts at token i
ParseElements(tokens, i, elements) ==
    LET element == ParseValue(tokens, i)
    IN  IF ~element.ok \/ element.next > Len(tokens) THEN NoValue
        ELSE CASE tokens[element.next].t = "," ->
                     ParseElements(tokens, element.next + 1,
                                   Append(elements, element.value))
               [] tokens[element.next].t = "]" ->
                     Value(JList(Append(elements, element.value)),
                           element.next + 1)
               [] OTHER -> NoValue

\* the rest of an object whose next key is token i
ParseMembers(tokens, i, members) ==
    IF i + 1 > Len(tokens) THEN NoValue
    ELSE IF tokens[i].t # "str" \/ tokens[i + 1].t # ":" THEN NoValue
    ELSE LET member == ParseValue(tokens, i + 2)
         IN  IF ~member.ok \/ member.next > Len(tokens) THEN NoValue
             ELSE CASE tokens[member.next].t = "," ->
                          ParseMembers(tokens, member.next + 1,
                                       DictSet(members, tokens[i].s,
                                               member.value))
                    [] tokens[member.next].t = "}" ->
                          Value(JObject(DictSet(members, tokens[i].s,
                                                member.value)),
                                member.next + 1)
                    [] OTHER -> NoValue

\* json.loads(text): <<value>>, or <<>> when it raises JSONDecodeError
json_loads(text) ==
    LET parsed == ParseValue(text, 1)
    IN  IF parsed.ok /\ parsed.next = Len(text) + 1
        THEN <<parsed.value>>
        ELSE <<>>

\* the members "key": value, ... of an object, as tokens
RECURSIVE Members(_)
Members(pairs) ==
    IF pairs = <<>> THEN <<>>
    ELSE <<StrTok(pairs[1][1]), Tok(":")>> \o pairs[1][2]
            \o (IF Len(pairs) = 1 THEN <<>> ELSE <<Tok(",")>>)
            \o Members(Tail(pairs))
Object(pairs) == <<Tok("{")>> \o Members(pairs) \o <<Tok("}")>>

\* answers of the language model
Prose == <<[t |-> "word", s |-> "Konechno"]>>
Truncated == <<Tok("{"), StrTok("type"), Tok(":")>>
Wrapped == <<[t |-> "word", s |-> "Otvet:"]>> \o Object(<<>>)
             \o <<[t |-> "word", s |-> "Gotovo."]>>
EmptyObject == Object(<<>>)
EmptyArray == <<Tok("["), Tok("]")>>
AnalysisObject ==
    Object(<<<<"type", <<StrTok("geometriya")>>>>,
             <<"difficulty", <<[t |-> "num", s |-> "3"]>>>>,
             <<"key_concepts", <<Tok("["), StrTok("c1"), Tok(","),
                                 StrTok("c2"), Tok("]")>>>>>>)
NumberOfConcepts ==
    Object(<<<<"key_concepts", <<[t |-> "num", s |-> "5"]>>>>>>)
CheckObject ==
    Object(<<<<"correctness", <<StrTok("pravilno")>>>>,
             <<"errors", <<Tok("["), Tok("]")>>>>>>)
HintObject ==
    Object(<<<<"light_hint", <<StrTok("h1")>>>>,
             <<"medium_hint", <<StrTok("h2")>>>>,
             <<"strong_hint", <<StrTok("h3")>>>>>>)
LightHintOnly == Object(<<<<"light_hint", <<StrTok("h1")>>>>>>)

Responses ==
    {Prose, Truncated, Wrapped, EmptyObject, EmptyArray, AnalysisObject,
     NumberOfConcepts, CheckObject, HintObject, LightHintOnly}

\* json.loads of every answer, computed once
Loaded == [response \in Responses |-> json_loads(response)]

\* ------------------------------------------------------------------------
\* analyze_problem, check_solution, generate_hint, generate_next_steps
\* ------------------------------------------------------------------------
\* a list of str
StrList(list) == JList([i \in 1..Len(list) |-> JStr(list[i])])

\* lines 154-161: the preliminary analysis with its placeholders
PreliminaryAnalysis(problem_text) ==
    LET preliminary == Classify(problem_text)
    IN  JObject([k \in {"type", "subtype", "difficulty", "key_concepts",
                        "approaches", "typical_errors"} |->
                   CASE k = "type" -> JStr(preliminary.type)
                     [] k = "subtype" -> JStr("Trebuetsya utochnenie")
                     [] k = "difficulty" -> JStr(preliminary.difficulty)
                     [] k = "key_concepts" ->
                           StrList(preliminary.key_concepts)
                     [] k = "approaches" -> StrList(<<"Trebuetsya analiz">>)
                     [] k = "typical_errors" ->
                           StrList(<<"Trebuetsya analiz">>)])

\* lines 149-163: what analyze_problem returns for an answer of the model;
\* the except clause catches every exception of json.loads
AnalyzeProblem(problem_text, response) ==
    IF Loaded[response] = <<>>
    THEN PreliminaryAnalysis(problem_text)
    ELSE Loaded[response][1]

\* lines 217-223
RequiresCheck ==
    JObject([k \in {"correctness", "errors", "comments", "suggestions",
                    "formatting"} |->
               CASE k = "correctness" -> JStr("Trebuetsya proverka")
                 [] k = "errors" -> JList(<<>>)
                 [] k = "comments" ->
                       StrList(<<"Trebuetsya analiz resheniya">>)
                 [] k = "suggestions" ->
                       StrList(<<"Trebuetsya analiz resheniya">>)
                 [] k = "formatting" -> JStr("Trebuetsya ocenka")])

\* lines 212-225
CheckResult(response) ==
    IF Loaded[response] = <<>> THEN RequiresCheck ELSE Loaded[response][1]

\* lines 297-301
DefaultHints ==
    JObject([k \in {"light_hint", "medium_hint", "strong_hint"} |->
               CASE k = "light_hint" -> JStr("Podumajte, ...")
                 [] k = "medium_hint" -> JStr("Rassmotrite ...")
                 [] k = "strong_hint" -> JStr("Nachnite s ...")])

\* lines 292-303
HintResult(response) ==
    IF Loaded[response] = <<>> THEN DefaultHints ELSE Loaded[response][1]

\* ', '.join(value) raises no TypeError: value is a str, a dict (its keys
\* are joined) or a list of str
Joinable(value) ==
    \/ value.tag \in {"str", "dict"}
    \/ /\ value.tag = "list"
       /\ \A k \in DOMAIN value.items : value.items[k].tag = "str"

\* the exception raised while the prompt is built from d.get(...) and
\* ', '.join(d.get(key, [...])), "none" if there is none: lines 192-194,
\* 267-269 with key = 'key_concepts', lines 376-377 with key = 'errors'
PromptRaises(d, key) ==
    IF d.tag # "dict" THEN "AttributeError"
    ELSE IF key \in DOMAIN d.items /\ ~Joinable(d.items[key])
         THEN "TypeError"
         ELSE "none"

\* what check_solution and generate_hint do before their own complete(),
\* given whether problem_analysis is None and the exception that building
\* the prompt raises: the exception, the number of complete() calls of
\* the method, the methods whose prompt was sent to the model, in the order
\* of the complete() calls, and the place of the answer json.loads is given
Outcome(method, absent, exception) ==
    [exception |-> exception,
     completions |-> (IF absent THEN 1 ELSE 0)
                        + (IF exception = "none" THEN 1 ELSE 0),
     requests |-> (IF absent THEN <<"analyze_problem">> ELSE <<>>)
                     \o (IF exception = "none" THEN <<method>> ELSE <<>>),
     last |-> IF absent THEN 2 ELSE 1]

\* lines 178-179 and 192-194, 241-242 and 267-269: the analysis is that of
\* analyze_problem when none is given, and the prompt is built from it
Analysed(method, problem_text, problem_analysis, answers) ==
    Outcome(method, problem_analysis = <<>>,
            PromptRaises(IF problem_analysis = <<>>
                         THEN AnalyzeProblem(problem_text, answers[1])
                         ELSE problem_analysis[1],
                         "key_concepts"))

\* the method raises the exception of its prompt or returns the value read
\* from the last answer; answers holds one answer for each complete()
Completes(call, arguments, answers, value) ==
    /\ Len(answers) = call.completions
    /\ IF call.exception # "none"
       THEN LogicReturns(call.exception, <<>>)
       ELSE LogicReturns("none", <<value>>)
    /\ last_call' = arguments \o <<answers, call.requests>>

\* the place in answers of the answer to the method's own prompt
Own(problem_analysis) == IF problem_analysis = <<>> THEN 2 ELSE 1

analyze_problem(problem_text, response) ==
    /\ LogicReturns("none", <<AnalyzeProblem(problem_text, response)>>)
    /\ OtherCall("analyze_problem")
    /\ last_call' = <<"analyze_problem", problem_text, response>>

check_solution(problem_text, solution_text, problem_analysis, answers) ==
    /\ problem_analysis = <<>> => Len(answers) >= 1
    /\ Completes(Analysed("check_solution", problem_text, problem_analysis,
                          answers),
                 <<"check_solution", problem_text, solution_text,
                   problem_analysis>>,
                 answers, CheckResult(answers[Own(problem_analysis)]))
    /\ OtherCall("check_solution")

generate_hint(problem_text, current_progress, problem_analysis, student_context, answers) ==
    /\ problem_analysis = <<>> => Len(answers) >= 1
    /\ Completes(Analysed("generate_hint", problem_text, problem_analysis,
                          answers),
                 <<"generate_hint", problem_text, current_progress,
                   problem_analysis, student_context>>,
                 answers, HintResult(answers[Own(problem_analysis)]))
    /\ OtherCall("generate_hint")

\* text.split(sep) from character i on, piece being the characters since
\* the last separator
RECURSIVE SplitOn(_, _, _, _)
SplitOn(text, sep, i, piece) ==
    IF i > Len(text) THEN <<piece>>
    ELSE IF text[i] = sep
         THEN <<piece>> \o SplitOn(text, sep, i + 1, <<>>)
         ELSE SplitOn(text, sep, i + 1, Append(piece, text[i]))

\* s.strip()
strip(s) ==
    LET kept == {i \in 1..Len(s) : s[i] \notin Whitespace}
    IN  IF kept = {} THEN <<>>
        ELSE SubSeq(s, CHOOSE i \in kept : \A j \in kept : i <= j,
                       CHOOSE i \in kept : \A j \in kept : i >= j)

\* line 390
Steps(text) ==
    LET lines == SplitOn(text, "\n", 1, <<>>)
        stripped == [i \in 1..Len(lines) |-> strip(lines[i])]
    IN  SelectSeq(stripped, LAMBDA step : step # <<>>)

generate_next_steps(problem_text, current_progress, check_result, response) ==
    /\ LET exception == PromptRaises(check_result, "errors")
       IN  IF exception # "none"
           THEN LogicReturns(exception, <<>>)
           ELSE LogicReturns("none", <<Steps(response)>>)
    /\ OtherCall("generate_next_steps")
    /\ last_call' = <<"generate_next_steps", problem_text, current_progress,
                      check_result, response>>

\* ------------------------------------------------------------------------
\* Inputs of the logic
\* ------------------------------------------------------------------------
\* the answers the model gives during one call
AnswerLists == UNION {[1..n -> Responses] : n \in 0..2}
\* some of them
FewAnswers == {<<Prose>>, <<EmptyArray>>, <<Prose, HintObject>>}
\* problem_analysis: <<>> is None
AnalysisArgs(problem_text) == {<<>>, <<PreliminaryAnalysis(problem_text)>>}
\* student_context: <<>> is None
StudentContexts ==
    {<<>>, <<[k \in {"difficult_concepts", "mastered_concepts"} |->
                IF k = "difficult_concepts" THEN <<"c1">> ELSE <<>>]>>}
\* check_result: what check_solution returned
CheckResults == {CheckResult(Prose), CheckResult(EmptyArray)}
\* answers in free text, read line by line
StepTexts ==
    {<<>>, <<" ">>, <<"\n">>, <<"a">>, <<"a", "\n", "b">>,
     <<" ", "a", " ", "b", "\t", "\n", "\n", " ", "\n", "c", "\n">>}

\* ------------------------------------------------------------------------
\* Specifications of the tutor logic
\* ------------------------------------------------------------------------
\* the classifier among the methods that call the language model
NextLogic ==
    \/ \E problem_text \in Texts : classify(problem_text)
    \/ \E response \in Responses : analyze_problem(Word_okruzhnost, response)
    \/ \E analysis \in AnalysisArgs(Word_okruzhnost) :
          \E answers \in FewAnswers :
             check_solution(Word_okruzhnost, Word_x, analysis, answers)
    \/ \E analysis \in AnalysisArgs(Word_okruzhnost) :
          \E answers \in FewAnswers :
             generate_hint(Word_okruzhnost, Word_x, analysis, <<>>, answers)

SpecLogic == InitStore /\ [][NextLogic]_vars

\* the methods that are given an analysis or a check result
NextTutor ==
    \/ \E analysis \in AnalysisArgs(Word_okruzhnost) :
          \E answers \in AnswerLists :
             check_solution(Word_okruzhnost, Word_x, analysis, answers)
    \/ \E analysis \in AnalysisArgs(Word_okruzhnost) :
          \E context \in StudentContexts : \E answers \in AnswerLists :
             generate_hint(Word_okruzhnost, Word_x, analysis, context,
                           answers)
    \/ \E check_result \in CheckResults : \E response \in StepTexts :
          generate_next_steps(Word_okruzhnost, Word_x, check_result,
                              response)

SpecTutor == InitStore /\ [][NextTutor]_vars

\* ------------------------------------------------------------------------
\* Shorthands for the properties
\* ------------------------------------------------------------------------
Memory == <<chat_memory, current_problems, student_progress, session_info>>

\* some entry of the progress log of an open problem has is_correct = True
HasCorrectEntry(p) ==
    \E i \in 1..Len(current_problems[p].progress) :
        current_problems[p].progress[i].is_correct = "True"

UpdateCallOn(call, p) ==
    call[1] = "update_problem_progress" /\ call[2] = p

\* C1: for every open problem, status = solved iff some entry of its
\* progress log has correctness = true.
C1_SolvedIffCorrectEntry ==
    \A p \in DOMAIN current_problems :
        (current_problems[p].status = "solved") <=> HasCorrectEntry(p)

\* C2: once an open problem is solved, an update_problem_progress call on it
\* keeps the status solved, and the call is recorded in the progress log
\* and in attempt_count.
C2_SolvedIsTerminal ==
    [][\A p \in ProblemIds :
          (/\ p \in DOMAIN current_problems
           /\ current_problems[p].status = "solved"
           /\ UpdateCallOn(last_call', p))
          => /\ current_problems'[p].status = "solved"
             /\ Len(current_problems'[p].progress) =
                   Len(current_problems[p].progress) + 1
             /\ current_problems'[p].attempts =
                   current_problems[p].attempts + 1]_vars

\* C3: solved_problems holds an id iff some progress-log entry currently
\* held for that problem has correctness = true.
C3_SolvedLedgerIffCorrectEntry ==
    \A p \in ProblemIds :
        In(p, student_progress.solved_problems)
        <=> (p \in DOMAIN current_problems /\ HasCorrectEntry(p))

\* C4: no concept is in both difficult_concepts and mastered_concepts.
C4_DifficultMasteredDisjoint ==
    \A c \in Concepts :
        ~(In(c, student_progress.difficult_concepts)
          /\ In(c, student_progress.mastered_concepts))

\* C5: after add_mastered_concept(c), c is mastered and not difficult, and
\* a second add_mastered_concept(c) right after the first leaves the memory
\* exactly as the first left it.
C5_MasteredIdempotent ==
    [][\A c \in Concepts :
          (last_call' = <<"add_mastered_concept", c>>)
          => /\ In(c, student_progress'.mastered_concepts)
             /\ ~In(c, student_progress'.difficult_concepts)
             /\ (last_call = <<"add_mastered_concept", c>>
                 => UNCHANGED Memory)]_vars

\* a concept that add_error made difficult is mastered by the last call
C5_Witness ==
    /\ last_call = <<"add_mastered_concept", "c1">>
    /\ \E i \in 1..Len(student_progress.common_errors) :
          student_progress.common_errors[i].concept = "c1"
    /\ In("c1", student_progress.mastered_concepts)
    /\ ~In("c1", student_progress.difficult_concepts)
    /\ In("c2", student_progress.difficult_concepts)

\* C6: update_problem_progress, add_hint and add_error on an id that is not
\* open do not raise and leave the memory unchanged.
C6_UnknownIdIsNoOp ==
    [][\A p \in ProblemIds :
          (/\ p \notin DOMAIN current_problems
           /\ last_call'[1] \in {"update_problem_progress", "add_hint",
                                 "add_error"}
           /\ last_call'[2] = p)
          => (raised' = "none" /\ UNCHANGED Memory)]_vars

\* the last call was one of the three on an id that is not open, in a
\* memory that holds another problem and a ledger
C6_Witness ==
    /\ last_call[1] \in {"update_problem_progress", "add_hint", "add_error"}
    /\ last_call[2] = "p2"
    /\ DOMAIN current_problems = {"p1"}
    /\ student_progress.common_errors # <<>>
    /\ raised = "none"

\* C7 as stated: attempt_count equals the number of update_problem_progress
\* calls recorded for the id since the session started or was last cleared,
\* also when the id was added again in between.
C7_AttemptsCountSessionCalls ==
    \A p \in DOMAIN current_problems :
        current_problems[p].attempts = update_calls[p].session

\* C7 amended: attempt_count equals the number of update_problem_progress
\* calls recorded for the id since it was last added with add_problem.
C7_AttemptsCountCallsSinceAdd ==
    \A p \in DOMAIN current_problems :
        current_problems[p].attempts = update_calls[p].since_add

\* a problem updated, added again and updated again
C7_Witness ==
    /\ "p1" \in DOMAIN current_problems
    /\ current_problems["p1"].attempts = 1
    /\ update_calls["p1"].session = 2
    /\ UpdateCallOn(last_call, "p1")

\* number of entries of list that satisfy error = e and concept = c
CountErrors(list, e, c) ==
    Cardinality({i \in 1..Len(list) :
                    list[i].error = e /\ list[i].concept = c})

\* the entries of common_errors of problem p
LedgerErrorsOf(p) ==
    SelectSeq(student_progress.common_errors,
              LAMBDA x : x.problem_id = p)

\* C8: the entries of common_errors map one-to-one to entries with the same
\* problem id, error and concept of the errors_made of a held problem.
C8_LedgerErrorsRecorded ==
    \A p \in ProblemIds, e \in Errors, c \in Concepts :
        CountErrors(LedgerErrorsOf(p), e, c)
        <= (IF p \in DOMAIN current_problems
            THEN CountErrors(current_problems[p].errors_made, e, c)
            ELSE 0)

\* C9: an update_problem_progress call on an open problem changes the
\* status only from started to attempted or solved, or from attempted to
\* solved, and the status is always one of the three values.
C9_StatusTransitions ==
    [][\A p \in ProblemIds :
          (p \in DOMAIN current_problems /\ UpdateCallOn(last_call', p))
          => LET old == current_problems[p].status
                 new == current_problems'[p].status
             IN  /\ new \in {"started", "attempted", "solved"}
                 /\ new # old =>
                       <<old, new>> \in {<<"started", "attempted">>,
                                         <<"started", "solved">>,
                                         <<"attempted", "solved">>}]_vars

\* C10: add_problem leaves the id open as a fresh problem, and a second
\* add_problem with the same arguments right after the first leaves the
\* memory as the first left it.
C10_AddProblemIdempotent ==
    [][\A p \in ProblemIds, t \in ProblemTexts, ty \in ProblemTypes,
          d \in Difficulties :
          (last_call' = <<"add_problem", p, t, ty, d>>)
          => /\ p \in DOMAIN current_problems'
             /\ current_problems'[p] =
                   [text |-> t, type |-> ty, difficulty |-> d,
                    status |-> "started", attempts |-> 0,
                    progress |-> <<>>, hints_given |-> <<>>,
                    errors_made |-> <<>>]
             /\ (last_call = <<"add_problem", p, t, ty, d>>
                 => UNCHANGED Memory)]_vars

\* the elements of a list, and whether it holds no element twice
Elems(list) == {list[i] : i \in 1..Len(list)}
NoDuplicates(list) == Cardinality(Elems(list)) = Len(list)

\* C11: solved_problems, attempted_problems, difficult_concepts and
\* mastered_concepts never hold the same element more than once.
C11_LedgersAreSets ==
    /\ NoDuplicates(student_progress.solved_problems)
    /\ NoDuplicates(student_progress.attempted_problems)
    /\ NoDuplicates(student_progress.difficult_concepts)
    /\ NoDuplicates(student_progress.mastered_concepts)

\* the calls C12 lists; update_problem_progress counts on an open id only
TouchingCall(call, open) ==
    \/ call[1] \in {"get", "put", "add_problem", "add_hint", "add_error",
                    "add_mastered_concept", "set_session_goal"}
    \/ call[1] = "update_problem_progress" /\ call[2] \in open

\* C12: after get and after every mutating call, last_activity is the time
\* of that call, so it is not before any reading of the clock made so far.
C12_LastActivityTouched ==
    [][TouchingCall(last_call', DOMAIN current_problems)
          => session_info'.last_activity >= now']_vars

\* C13: clear is enabled in every state, and it leaves no open problem,
\* five empty ledgers, no goals, no dialogue history and a start_time read
\* at the call: the memory of a fresh instance.
C13_ClearResets ==
    [][/\ ENABLED clear
       /\ last_call' = <<"clear">>
          => /\ chat_memory' = <<>>
             /\ DOMAIN current_problems' = {}
             /\ student_progress' =
                   [solved_problems |-> <<>>, attempted_problems |-> <<>>,
                    difficult_concepts |-> <<>>, mastered_concepts |-> <<>>,
                    common_errors |-> <<>>]
             /\ session_info'.session_goals = <<>>
             /\ session_info'.start_time >= now
             /\ session_info'.last_activity >= session_info'.start_time
             /\ raised' = "none"]_vars

\* clear was the last call and start_time was read after time 0
C13_Witness ==
    /\ last_call = <<"clear">>
    /\ session_info.start_time = 1
    /\ current_problems = <<>>
    /\ student_progress.attempted_problems = <<>>

\* C14: add_error on an open id appends one entry to the errors_made of the
\* problem and one entry with the same id, error and concept to the end of
\* common_errors, and adds the concept to difficult_concepts if absent.
C14_AddErrorRecords ==
    [][\A p \in ProblemIds, e \in Errors, c \in Concepts :
          (p \in DOMAIN current_problems
           /\ last_call' = <<"add_error", p, e, c>>)
          => LET made == current_problems[p].errors_made
                 made2 == current_problems'[p].errors_made
                 common == student_progress.common_errors
                 common2 == student_progress'.common_errors
                 hard == student_progress.difficult_concepts
                 hard2 == student_progress'.difficult_concepts
             IN  /\ Len(made2) = Len(made) + 1
                 /\ SubSeq(made2, 1, Len(made)) = made
                 /\ made2[Len(made2)].error = e
                 /\ made2[Len(made2)].concept = c
                 /\ Len(common2) = Len(common) + 1
                 /\ SubSeq(common2, 1, Len(common)) = common
                 /\ common2[Len(common2)].problem_id = p
                 /\ common2[Len(common2)].error = e
                 /\ common2[Len(common2)].concept = c
                 /\ c \in Elems(hard2)
                 /\ hard2 = IF c \in Elems(hard) THEN hard
                            ELSE hard \o <<c>>]_vars

\* a second add_error for a concept that is already difficult
C14_Witness ==
    /\ last_call = <<"add_error", "p1", "e1", "c1">>
    /\ "p1" \in DOMAIN current_problems
    /\ Len(current_problems["p1"].errors_made) = 2
    /\ Len(student_progress.common_errors) = 2
    /\ student_progress.difficult_concepts = <<"c1">>

\* C15: get_context_for_problem returns an empty object for an id that is
\* not open; otherwise the state of the problem, the distinct concepts of
\* its errors_made, the mastered and difficult concepts among them, and the
\* solved ids other than the id itself.
C15_ContextForProblem ==
    [][\A p \in ProblemIds :
          (last_call' = <<"get_context_for_problem", p>>)
          => IF p \notin DOMAIN current_problems
             THEN result' = << <<>> >>
             ELSE LET ctx == result'[1]
                      made == current_problems[p].errors_made
                      concepts == {made[i].concept : i \in 1..Len(made)}
                  IN  /\ ctx.problem = current_problems[p]
                      /\ Elems(ctx.related_concepts) = concepts
                      /\ NoDuplicates(ctx.related_concepts)
                      /\ Elems(ctx.mastered_concepts) =
                            Elems(student_progress.mastered_concepts)
                            \cap concepts
                      /\ Elems(ctx.difficult_concepts) =
                            Elems(student_progress.difficult_concepts)
                            \cap concepts
                      /\ Elems(ctx.similar_problems) =
                            Elems(student_progress.solved_problems) \ {p}]_vars

\* the context of a solved problem with an error: the id itself is left out
C15_Witness ==
    /\ last_call = <<"get_context_for_problem", "p1">>
    /\ student_progress.solved_problems = <<"p1">>
    /\ result[1].related_concepts = <<"c1">>
    /\ result[1].difficult_concepts = <<"c1">>
    /\ result[1].similar_problems = <<>>

\* ------------------------------------------------------------------------
\* Shorthands for the properties of the corpus store
\* ------------------------------------------------------------------------
\* a search call with filters that are applied: not None and not empty
FiltersApplied(call) ==
    /\ call[1] = "search_problems"
    /\ call[4] # <<>>
    /\ DOMAIN call[4][1] # {}

\* node i of the problems collection passes the filter dict
Passes(i, filter) ==
    \A key \in DOMAIN filter :
        /\ key \in DOMAIN problems_collection[i].metadata
        /\ problems_collection[i].metadata[key] = filter[key]

ProblemScore(query, i) == Similarity(query, problems_collection[i].text)

\* the sequences of k distinct indices of the problems collection that are
\* a ranking of its k most similar nodes, best first
TopRankings(query, k) ==
    LET n == Len(problems_collection)
    IN  {ix \in [1..k -> 1..n] :
            /\ \A a, b \in 1..k : a < b =>
                  /\ ix[a] # ix[b]
                  /\ ProblemScore(query, ix[a]) >= ProblemScore(query, ix[b])
            /\ \A a \in 1..k : \A j \in (1..n) \ {ix[b] : b \in 1..k} :
                  ProblemScore(query, ix[a]) >= ProblemScore(query, j)}

\* C16: every record search_problems returns satisfies every filter: the
\* key is in its metadata and the value equals the filter value.
C16_ResultsSatisfyFilters ==
    [][(last_call'[1] = "search_problems" /\ last_call'[4] # <<>>)
          => \A i \in 1..Len(result'[1]) :
                \A key \in DOMAIN last_call'[4][1] :
                    /\ key \in DOMAIN result'[1][i].metadata
                    /\ result'[1][i].metadata[key] = last_call'[4][1][key]]_vars

\* of two retrieved nodes, the one without the filter key is left out
C16_Witness ==
    /\ FiltersApplied(last_call)
    /\ last_call[3] = 2
    /\ Len(problems_collection) = 2
    /\ \E i \in 1..2 : "type" \notin DOMAIN problems_collection[i].metadata
    /\ Len(result[1]) = 1

\* C17: the result of search_problems is the top_k most similar records
\* with the records that fail the filters removed, so it has at most top_k
\* entries and holds no record ranked outside the top_k.
C17_FiltersAfterRanking ==
    [][last_call'[1] = "search_problems"
          => LET query == last_call'[2]
                 top_k == last_call'[3]
                 n == Len(problems_collection)
                 k == IF top_k < n THEN top_k ELSE n
                 keep(i) == FiltersApplied(last_call')
                            => Passes(i, last_call'[4][1])
                 res == result'[1]
             IN  /\ Len(res) <= top_k
                 /\ \E ix \in TopRankings(query, k) :
                       LET kept == SelectSeq(ix, keep)
                       IN  /\ Len(res) = Len(kept)
                           /\ \A j \in 1..Len(kept) :
                                 /\ res[j].text =
                                       problems_collection[kept[j]].text
                                 /\ res[j].metadata =
                                       problems_collection[kept[j]].metadata]_vars

\* top_k = 1 and the best node fails the filter: the result is empty though
\* the collection holds a node of lower score that passes
C17_Witness ==
    /\ FiltersApplied(last_call)
    /\ last_call[3] = 1
    /\ \E i, j \in 1..Len(problems_collection) :
          /\ Passes(i, last_call[4][1])
          /\ ~Passes(j, last_call[4][1])
          /\ ProblemScore(last_call[2], j) > ProblemScore(last_call[2], i)
    /\ result[1] = <<>>

\* C18: the list search_problems returns with filters is ordered by score,
\* highest first.
C18_ResultsByScore ==
    [][FiltersApplied(last_call')
          => \A i, j \in 1..Len(result'[1]) :
                i < j => result'[1][i].score >= result'[1][j].score]_vars

\* two records of different score pass the filter
C18_Witness ==
    /\ FiltersApplied(last_call)
    /\ Len(result[1]) = 2
    /\ result[1][1].score > result[1][2].score

\* C19: a search in an empty collection returns an empty list and raises
\* nothing, and so does search_problems when no node that can be among the
\* top_k passes the filters.
C19_EmptyResults ==
    [][/\ (last_call'[1] = "search_problems" /\ problems_collection = <<>>)
          => (result' = << <<>> >> /\ raised' = "none")
       /\ (last_call'[1] = "search_solutions" /\ solutions_collection = <<>>)
          => (result' = << <<>> >> /\ raised' = "none")
       /\ (last_call'[1] = "search_concepts" /\ concepts_collection = <<>>)
          => (result' = << <<>> >> /\ raised' = "none")
       /\ (/\ FiltersApplied(last_call')
           /\ \A i \in 1..Len(problems_collection) :
                 Cardinality({j \in 1..Len(problems_collection) :
                                 ProblemScore(last_call'[2], j)
                                 > ProblemScore(last_call'[2], i)})
                 < last_call'[3]
                 => ~Passes(i, last_call'[4][1]))
          => (result' = << <<>> >> /\ raised' = "none")]_vars

\* both nodes of the collection are retrieved and neither passes the filter
C19_Witness ==
    /\ FiltersApplied(last_call)
    /\ last_call[3] = 2
    /\ Len(problems_collection) = 2
    /\ \A i \in 1..2 : ~Passes(i, last_call[4][1])
    /\ result = << <<>> >>
    /\ raised = "none"

\* C20 as stated: when search_solutions is given a problem_id, also the
\* empty string, every returned solution has that problem_id.
C20_SolutionsOfGivenId ==
    [][(last_call'[1] = "search_solutions" /\ last_call'[4] # <<>>)
          => \A i \in 1..Len(result'[1]) :
                result'[1][i].problem_id = last_call'[4][1]]_vars

\* C20 amended: when search_solutions is given a non-empty problem_id every
\* returned solution has that problem_id; with no problem_id or the empty
\* string it returns the top_k solutions unfiltered.
C20_SolutionsOfNonEmptyId ==
    [][last_call'[1] = "search_solutions"
          => LET problem_id == last_call'[4]
                 n == Len(solutions_collection)
             IN  IF problem_id # <<>> /\ problem_id[1] # ""
                 THEN \A i \in 1..Len(result'[1]) :
                         result'[1][i].problem_id = problem_id[1]
                 ELSE Len(result'[1]) =
                         IF last_call'[3] < n THEN last_call'[3] ELSE n]_vars

\* solutions of two problems are retrieved and one is returned
C20_Witness ==
    /\ last_call[1] = "search_solutions"
    /\ last_call[3] = 2
    /\ last_call[4] = <<"p1">>
    /\ Len(solutions_collection) = 2
    /\ \E i \in 1..2 : solutions_collection[i].metadata["problem_id"] = "p2"
    /\ Len(result[1]) = 1
    /\ result[1][1].problem_id = "p1"

\* ------------------------------------------------------------------------
\* Import and export (SpecFiles)
\* ------------------------------------------------------------------------
\* the ids, texts and metadata of the problems of a collection
ProblemsOf(collection) ==
    {[problem_id |-> DictGet(collection[i].metadata, "problem_id", ""),
      text |-> collection[i].text,
      metadata |-> collection[i].metadata] : i \in 1..Len(collection)}

\* the solutions attached to problem p, in order
SolutionsOf(collection, p) ==
    SelectSeq(collection,
              LAMBDA node : DictGet(node.metadata, "problem_id", "") = p)

\* a load step that found a file
LoadStep(method, call) ==
    /\ call[1] = method
    /\ call[3] # <<>>

\* C21: export_problems_to_json followed by load_problems_from_json of the
\* exported file into a fresh store reproduces the problem ids, texts and
\* metadata of the exported store, and the solutions of every problem.
C21_ExportLoadRoundTrip ==
    [][(/\ last_call'[1] = "load_problems_from_json"
        /\ exported # <<>>
        /\ last_call'[2] = exported[1].json_file
        /\ problems_collection = <<>>
        /\ solutions_collection = <<>>)
       => /\ ProblemsOf(problems_collection') =
                ProblemsOf(exported[1].problems_collection)
          /\ \A p \in ProblemIds :
                SolutionsOf(solutions_collection', p) =
                   SolutionsOf(exported[1].solutions_collection, p)]_vars

\* the records of an array that have every required key
WithKeys(array, required) ==
    SelectSeq(array, LAMBDA record : required \subseteq DOMAIN record)

\* C22: a load inserts exactly the records that have the required keys
\* (text for a problem; name and description for a concept), in the order
\* of the file, skips the others, and returns the number it inserted.
C22_MalformedRecordsSkipped ==
    [][/\ LoadStep("load_problems_from_json", last_call') =>
             LET kept == WithKeys(last_call'[3][1], {"text"})
                 n == Len(problems_collection)
             IN  /\ Len(problems_collection') = n + Len(kept)
                 /\ \A j \in 1..Len(kept) :
                       problems_collection'[n + j].text = kept[j]["text"]
                 /\ result' = <<Len(kept)>>
       /\ LoadStep("load_concepts_from_json", last_call') =>
             LET kept == WithKeys(last_call'[3][1], {"name", "description"})
                 n == Len(concepts_collection)
             IN  /\ Len(concepts_collection') = n + Len(kept)
                 /\ \A j \in 1..Len(kept) :
                       concepts_collection'[n + j].metadata["concept_name"] =
                          kept[j]["name"]
                 /\ result' = <<Len(kept)>>]_vars

ClassifyStep(call) == call # <<>> /\ call[1] = "classify"

\* the words a text was made of
WordsOf(text) == (CHOOSE c \in Composition : c.text = text).words
\* the task type one of whose keywords a word contains
KeywordOf(word) == (CHOOSE v \in Vocabulary : v.word = word).keyword_of

\* the categories in their fixed order
Categories == <<"algebra", "geometriya", "veroyatnost", "tekstovaya_zadacha">>

\* the first category one of whose keywords is among the words
FirstCategory(words) ==
    LET found == {i \in 1..Len(Categories) :
                    \E k \in 1..Len(words) :
                       KeywordOf(words[k]) = Categories[i]}
    IN  IF found = {} THEN "Trebuetsya analiz"
        ELSE Categories[CHOOSE i \in found : \A j \in found : i <= j]

\* C24: the task type of a text is the first category, in the order algebra,
\* geometry, probability, word problem, one of whose keywords occurs in the
\* text in whatever case; it is the sentinel when no keyword occurs; the
\* classifier does not raise.
C24_FirstCategoryWins ==
    [][ClassifyStep(last_call') =>
          /\ raised' = "none"
          /\ result'[1].type = FirstCategory(WordsOf(last_call'[2]))]_vars

\* a text with a geometry keyword followed by an algebra keyword in upper
\* case was classified: it is algebra
C24_Witness ==
    /\ ClassifyStep(last_call)
    /\ WordsOf(last_call[2]) = <<Word_okruzhnost, Word_URAVNENIE>>
    /\ result[1].type = "algebra"

\* the tiers in their order
TierRank(difficulty) ==
    CASE difficulty = "Bazovyj uroven" -> 1
      [] difficulty = "Srednij uroven" -> 2
      [] difficulty = "Povyshennyj uroven" -> 3

\* C25: the difficulty of a text is basic below 30 words, standard from 30
\* to 59 words and advanced from 60 words on, whatever its task type, and a
\* text of more words than another is never of a lower tier.
C25_DifficultyByWordCount ==
    [][ClassifyStep(last_call') =>
          LET word_count == Len(WordsOf(last_call'[2]))
              difficulty == result'[1].difficulty
          IN  /\ word_count < 30 => difficulty = "Bazovyj uroven"
              /\ word_count >= 30 /\ word_count < 60 =>
                    difficulty = "Srednij uroven"
              /\ word_count >= 60 => difficulty = "Povyshennyj uroven"
              /\ classified # <<>>
                    /\ Len(WordsOf(classified[1].text)) <= word_count =>
                    TierRank(classified[1].result.difficulty)
                       <= TierRank(difficulty)]_vars

\* a geometry text of exactly 30 words was classified after a text of 29
\* words without keyword: the first is basic, the second standard
C25_Witness ==
    /\ ClassifyStep(last_call)
    /\ WordsOf(last_call[2]) = <<Word_okruzhnost>> \o Filler(29)
    /\ result[1].type = "geometriya"
    /\ result[1].difficulty = "Srednij uroven"
    /\ classified # <<>>
    /\ WordsOf(classified[1].text) = Filler(29)
    /\ classified[1].result.difficulty = "Bazovyj uroven"

LogicStep(method, call) == call # <<>> /\ call[1] = method

\* an answer is JSON for a dict that has the fields
Shaped(response, fields) ==
    /\ Loaded[response] # <<>>
    /\ Loaded[response][1].tag = "dict"
    /\ fields \subseteq DOMAIN Loaded[response][1].items

AnalysisFields ==
    {"type", "subtype", "difficulty", "key_concepts", "approaches",
     "typical_errors"}
CheckFields ==
    {"correctness", "errors", "comments", "suggestions", "formatting"}
HintFields == {"light_hint", "medium_hint", "strong_hint"}

\* C27: analyze_problem does not raise, and when the answer of the model is
\* no JSON, or JSON that is no object with the fields of an analysis, it
\* returns the task type, the difficulty and the key concepts of the
\* classifier with the placeholders in the other fields.
C27_AnalyzeFallsBack ==
    [][LogicStep("analyze_problem", last_call') =>
          /\ raised' = "none"
          /\ ~Shaped(last_call'[3], AnalysisFields) =>
                LET preliminary == Classify(last_call'[2])
                    analysis == result'[1]
                IN  /\ analysis.tag = "dict"
                    /\ DOMAIN analysis.items = AnalysisFields
                    /\ analysis.items["type"] = JStr(preliminary.type)
                    /\ analysis.items["difficulty"] =
                          JStr(preliminary.difficulty)
                    /\ analysis.items["key_concepts"] =
                          StrList(preliminary.key_concepts)
                    /\ \A k \in {"approaches", "typical_errors"} :
                          analysis.items[k] =
                             StrList(<<"Trebuetsya analiz">>)]_vars

\* C28: when the answer of the model to check_solution is no JSON for a
\* check result, check_solution does not raise and returns the undetermined
\* result, with no errors; and it does not raise either when no analysis was
\* given and the answer to its analyze_problem call was no JSON for an
\* analysis.
C28_CheckFallsBack ==
    [][LogicStep("check_solution", last_call') =>
          LET problem_analysis == last_call'[4]
              answers == last_call'[5]
              own == IF problem_analysis = <<>> THEN 2 ELSE 1
          IN  /\ Len(answers) >= own
                    /\ ~Shaped(answers[own], CheckFields) =>
                    /\ raised' = "none"
                    /\ result'[1].tag = "dict"
                    /\ result'[1].items["correctness"] =
                          JStr("Trebuetsya proverka")
                    /\ result'[1].items["errors"] = JList(<<>>)
              /\ problem_analysis = <<>>
                    /\ ~Shaped(answers[1], AnalysisFields) =>
                    raised' = "none"]_vars

\* C29: whatever the answer of the model, the result of generate_hint has
\* the three tiers light_hint, medium_hint and strong_hint, which are the
\* default ones when the answer is no JSON.
C29_ThreeTiers ==
    [][LogicStep("generate_hint", last_call') /\ raised' = "none" =>
          LET answers == last_call'[6]
              hints == result'[1]
          IN  /\ hints.tag = "dict"
              /\ HintFields \subseteq DOMAIN hints.items
              /\ Loaded[answers[Len(answers)]] = <<>> =>
                    hints = DefaultHints]_vars

\* C30: whatever the answer of the model, generate_next_steps returns a list
\* that is not empty, of lines of the answer without whitespace around them,
\* none of them blank.
C30_StepsNotEmpty ==
    [][LogicStep("generate_next_steps", last_call') /\ raised' = "none" =>
          LET steps == result'[1]
          IN  /\ steps # <<>>
              /\ \A i \in 1..Len(steps) :
                    /\ steps[i] # <<>>
                    /\ steps[i][1] \notin Whitespace
                    /\ steps[i][Len(steps[i])] \notin Whitespace]_vars

\* C31: check_solution and generate_hint called without an analysis send
\* two prompts to the model, that of analyze_problem and then their own;
\* called with an analysis they send their own prompt only.
C31_RequestsIssued ==
    [][LogicStep("check_solution", last_call')
          \/ LogicStep("generate_hint", last_call') =>
          LET method == last_call'[1]
              problem_analysis == last_call'[4]
              requests == last_call'[Len(last_call')]
          IN  requests = IF problem_analysis = <<>>
                         THEN <<"analyze_problem", method>>
                         ELSE <<method>>]_vars

\* ------------------------------------------------------------------------
\* The session memory: further invariants
\* ------------------------------------------------------------------------
\* C32: in every state, attempts of every open problem is the length of its
\* progress log.
C32_AttemptsIsLogLength ==
    \A p \in DOMAIN current_problems :
        current_problems[p].attempts = Len(current_problems[p].progress)

\* an open problem has two entries in its log and two attempts
C32_Witness ==
    \E p \in DOMAIN current_problems :
        /\ Len(current_problems[p].progress) = 2
        /\ current_problems[p].attempts = 2

\* C33: in every state, an open problem whose status is solved has its id
\* in the ledger of solved problems.
C33_SolvedStatusInLedger ==
    \A p \in DOMAIN current_problems :
        current_problems[p].status = "solved" =>
           In(p, student_progress.solved_problems)

\* a problem that was solved and added again was solved again by the last
\* call: it is in the ledger
C33_Witness ==
    /\ last_call[1] = "update_problem_progress"
    /\ \E p \in DOMAIN current_problems :
          /\ p = last_call[2]
          /\ update_calls[p].session = 2
          /\ update_calls[p].since_add = 1
          /\ current_problems[p].status = "solved"
          /\ In(p, student_progress.solved_problems)

\* C34: in every state, every open problem id is in the ledger of attempted
\* problems.
C34_OpenIsAttempted ==
    \A p \in DOMAIN current_problems :
        In(p, student_progress.attempted_problems)

\* two problems were added and both are in the ledger
C34_Witness ==
    /\ calls = 2
    /\ DOMAIN current_problems = ProblemIds
    /\ \A p \in ProblemIds : In(p, student_progress.attempted_problems)

\* C35: update_problem_progress on an open problem with is_correct None
\* appends its entry to the log and adds one to attempts, and leaves the
\* status of the problem and every ledger of student_progress as they were.
C35_UpdateWithoutVerdict ==
    [][\A p \in DOMAIN current_problems :
          UpdateCallOn(last_call', p) /\ last_call'[4] = "None" =>
             LET before == current_problems[p]
                 after == current_problems'[p]
             IN  /\ Len(after.progress) = Len(before.progress) + 1
                 /\ SubSeq(after.progress, 1, Len(before.progress)) =
                       before.progress
                 /\ after.progress[Len(after.progress)].update =
                       last_call'[3]
                 /\ after.progress[Len(after.progress)].is_correct = "None"
                 /\ after.attempts = before.attempts + 1
                 /\ after.status = before.status
                 /\ student_progress' = student_progress]_vars

\* the last call updated an open problem without a verdict: the problem is
\* still started, with one attempt
C35_Witness ==
    /\ last_call[1] = "update_problem_progress"
    /\ last_call[4] = "None"
    /\ last_call[2] \in DOMAIN current_problems
    /\ current_problems[last_call[2]].status = "started"
    /\ current_problems[last_call[2]].attempts = 1

\* ------------------------------------------------------------------------
\* The order of a load
\* ------------------------------------------------------------------------
\* the solutions of a record of a problems file
SolutionsIn(record) ==
    IF "solutions" \in DOMAIN record THEN record["solutions"] ELSE <<>>

\* the number of solutions in the first n records of an array
RECURSIVE SolutionsBefore(_, _)
SolutionsBefore(array, n) ==
    IF n = 0 THEN 0
    ELSE SolutionsBefore(array, n - 1) + Len(SolutionsIn(array[n]))

\* the problem id of the i-th record of an array
ResolvedId(array, i) ==
    IF "problem_id" \in DOMAIN array[i] THEN array[i]["problem_id"]
    ELSE Digits[i]

C37_SetReplacesOneComponent ==
    [][last_call'[1] = "set" =>
          LET key == last_call'[2]
              value == last_call'[3]
          IN  CASE key = "chat_memory" ->
                     /\ raised' = "none"
                     /\ chat_memory' = value
                     /\ UNCHANGED <<current_problems, student_progress,
                                    session_info>>
                [] key = "current_problems" ->
                     /\ raised' = "none"
                     /\ current_problems' = value
                     /\ UNCHANGED <<chat_memory, student_progress,
                                    session_info>>
                [] key = "student_progress" ->
                     /\ raised' = "none"
                     /\ student_progress' = value
                     /\ UNCHANGED <<chat_memory, current_problems,
                                    session_info>>
                [] key = "session_info" ->
                     /\ raised' = "none"
                     /\ session_info' = value
                     /\ UNCHANGED <<chat_memory, current_problems,
                                    student_progress>>
                [] OTHER ->
                     /\ raised' = "ValueError"
                     /\ UNCHANGED Memory]_vars

\* set replaced current_problems while a problem was open: the problems
\* are the value given and the ledger of attempted problems is as before
C37_Witness ==
    /\ last_call[1] = "set"
    /\ last_call[2] = "current_problems"
    /\ raised = "none"
    /\ DOMAIN current_problems = {"p2"}
    /\ current_problems = last_call[3]
    /\ student_progress.attempted_problems = <<"p1">>
    /\ chat_memory = <<"m1">>

TypeOK ==
    /\ DOMAIN current_problems \subseteq ProblemIds
    /\ now \in 0..MaxTime
    /\ raised \in {"none", "TypeError", "AttributeError", "ValueError"}
====
